---- MODULE Spec2Model ----
(***************************************************************************)
(* A model of the rbf crate (record-based file reader): fields, records,   *)
(* the two slicing modes, the record filter, the layout's integrity check, *)
(* the record mapper and the streaming reader.                             *)
(*                                                                         *)
(* A Rust String is a sequence of codepoints; a codepoint is one of the    *)
(* one-character strings of an alphabet, and CharLen gives the number of   *)
(* bytes of its UTF-8 encoding ("U" stands for a two-byte codepoint such   *)
(* as a Greek letter).  A panic is an outcome of its own: the variable     *)
(* status (or the ok field of a result) records it, and nothing runs after *)
(* it.                                                                     *)
(***************************************************************************)
EXTENDS Integers, Sequences, FiniteSets, TLC

VARIABLES
    mode,      \* the record's type parameter: "ascii" (AsciiMode) or "utf8" (UTF8Mode)
    rec,       \* the Record under construction / being populated
    op,        \* the last operation applied to rec
    line,      \* the argument of the last Record.set_value
    status,    \* "ok"; "panic" once an operation panicked; "eof", "fatal" for the reader
    filt,      \* the RecordFilter last evaluated (its expr vector)
    fres,      \* outcome of the last Record.is_filter_matched
    layout,    \* the Layout being loaded: rec_length, rec_map, last_rec_name, ftypes
    valid,     \* outcome of the last Layout.is_valid, or of Layout::new
    mapper,    \* the RecordMapper built by RecordMapper::new
    mres,      \* outcome of the last call of mapper.func
    reader,    \* the streaming Reader
    fld,       \* outcome of the last Field::from_offset: arguments, ok, field;
               \* for a layout, the <field> element last read or the argument
               \* of the last retain / remove
    cmd_args,  \* the CommandLineArguments of the urr front-end, options parsed
    writer     \* the records handed to the writer of the urr front-end

vars == <<mode, rec, op, line, status, filt, fres, layout, valid, mapper, mres, reader,
          fld, cmd_args, writer>>

(***************************************************************************)
(* Bounds of the model.                                                    *)
(***************************************************************************)
MaxFields == 2       \* fields pushed onto one record
MaxLen == 2          \* length of a field created by length
MaxOff == 3          \* greatest 1-based offset of a field created by offset
MaxLine == 3         \* codepoints of an input line
MaxNameFields == 3   \* fields pushed onto one record (SpecNames)
MaxNameLine == 3     \* codepoints of an input line (SpecNames)

Max(a, b) == IF a >= b THEN a ELSE b
Min(a, b) == IF a <= b THEN a ELSE b

(***************************************************************************)
(* Strings.                                                                *)
(***************************************************************************)
Alphabet == {"a", " ", "U"}

\* number of bytes of the UTF-8 encoding of a codepoint
CharLen(c) == IF c = "U" THEN 2 ELSE 1

RECURSIVE StrOfLen(_, _)
StrOfLen(alphabet, n) ==
    IF n = 0 THEN {<<>>}
    ELSE {Append(s, c) : s \in StrOfLen(alphabet, n - 1), c \in alphabet}

\* every string of at most n codepoints
Strings(alphabet, n) == UNION {StrOfLen(alphabet, k) : k \in 0..n}

\* str::len(): the length in bytes
RECURSIVE ByteLen(_)
ByteLen(s) == IF s = <<>> THEN 0 ELSE CharLen(Head(s)) + ByteLen(Tail(s))

\* the bytes of a string: the k-th byte of codepoint c is <<c, k>>
RECURSIVE Encode(_)
Encode(s) ==
    IF s = <<>> THEN <<>>
    ELSE [k \in 1..CharLen(Head(s)) |-> <<Head(s), k>>] \o Encode(Tail(s))

\* the string of a byte sequence that starts and ends on codepoint boundaries
RECURSIVE Decode(_)
Decode(bs) ==
    IF bs = <<>> THEN <<>>
    ELSE IF Head(bs)[2] = 1 THEN <<Head(bs)[1]>> \o Decode(Tail(bs))
    ELSE Decode(Tail(bs))

\* str::is_char_boundary(i), i a byte offset
IsCharBoundary(s, i) ==
    \/ i = 0
    \/ i = ByteLen(s)
    \/ i < ByteLen(s) /\ Encode(s)[i + 1][2] = 1

\* &s[lo..hi] does not panic
SliceOk(s, lo, hi) ==
    /\ lo <= hi
    /\ hi <= ByteLen(s)
    /\ IsCharBoundary(s, lo)
    /\ IsCharBoundary(s, hi)

\* &s[lo..hi], a byte range
StrSlice(s, lo, hi) == Decode(SubSeq(Encode(s), lo + 1, hi))

\* s.chars().skip(n)
Skip(s, n) == SubSeq(s, n + 1, Len(s))

\* s.chars().take(n)
Take(s, n) == SubSeq(s, 1, Min(n, Len(s)))

Spaces(n) == [i \in 1..n |-> " "]

IsWhite(c) == c = " "

RECURSIVE TrimStart(_)
TrimStart(s) ==
    IF s # <<>> /\ IsWhite(Head(s)) THEN TrimStart(Tail(s)) ELSE s

RECURSIVE TrimEnd(_)
TrimEnd(s) ==
    IF s # <<>> /\ IsWhite(s[Len(s)]) THEN TrimEnd(SubSeq(s, 1, Len(s) - 1)) ELSE s

\* str::trim()
Trim(s) == TrimEnd(TrimStart(s))

(***************************************************************************)
(* Field (field.rs).                                                       *)
(***************************************************************************)
FieldNames == {"A", "B"}

\* faulty variant: the length is not tested
Field_from_length_ok_NameOnly(name, length) == name # ""

\* Field::from_length panics on an empty name or a zero length
Field_from_length_ok(name, length) == name # "" /\ length # 0

Field_from_length(name, ftype, length) ==
    [name |-> name,
     length |-> length,
     ftype |-> ftype,
     raw_value |-> <<>>,
     str_value |-> <<>>,
     offset_from_origin |-> 0,
     index |-> 0,
     lower_offset |-> 0,
     upper_offset |-> 0,
     multiplicity |-> 0,
     cell_size |-> Max(length, Len(name)),
     creation_type |-> "ByLength",
     id |-> ""]

\* Field::from_offset panics on an empty name or lower_offset > upper_offset
Field_from_offset_ok(name, lower_offset, upper_offset) ==
    name # "" /\ lower_offset <= upper_offset

\* usize arithmetic wraps modulo 2^64 in a release build; the model keeps the
\* wrap-around with a narrower word
UsizeModulus == 65536

\* lower_offset - 1 or upper_offset - 1 overflows: a panic in a debug build,
\* a wrap-around in a release build
Field_from_offset_overflows(lower_offset, upper_offset) ==
    lower_offset = 0 \/ upper_offset = 0

\* the offsets are given 1-based and kept 0-based
Field_from_offset(name, ftype, lower_offset, upper_offset) ==
    [name |-> name,
     length |-> upper_offset - lower_offset + 1,
     ftype |-> ftype,
     raw_value |-> <<>>,
     str_value |-> <<>>,
     offset_from_origin |-> 0,
     index |-> 0,
     lower_offset |-> (lower_offset - 1) % UsizeModulus,
     upper_offset |-> (upper_offset - 1) % UsizeModulus,
     multiplicity |-> 0,
     cell_size |-> Max(upper_offset - lower_offset + 1, Len(name)),
     creation_type |-> "ByOffset",
     id |-> ""]

\* faulty variant: the stripped value is not stripped
Field_set_value_NoTrim(f, val) ==
    [f EXCEPT !.str_value = val, !.raw_value = val]

Field_set_value(f, val) ==
    [f EXCEPT !.str_value = Trim(val), !.raw_value = val]

Field_value(f) == f.str_value

(***************************************************************************)
(* Record (record.rs).                                                     *)
(***************************************************************************)
Record_new(name, length) ==
    [name |-> name,
     declared_length |-> length,
     flist |-> <<>>,
     calculated_length |-> 0]

\* Record::get through Record::filter: None when no field has the name
Record_get(r, fname) ==
    LET result == SelectSeq(r.flist, LAMBDA f : f.name = fname)
    IN  [is_some |-> result # <<>>, v |-> result]

Record_contains_field(r, fname) == \E i \in 1..Len(r.flist) : r.flist[i].name = fname

Record_count(r) == Len(r.flist)

\* faulty variant: the multiplicity follows the first field of the same name, not the last
PushMultiplicity_First(r, field) ==
    LET g == Record_get(r, field.name)
    IN  IF g.is_some THEN g.v[1].multiplicity + 1 ELSE field.multiplicity

\* push, "get last field having the same name (if any)"
PushMultiplicity(r, field) ==
    LET g == Record_get(r, field.name)
    IN  IF g.is_some THEN g.v[Len(g.v)].multiplicity + 1 ELSE field.multiplicity

\* faulty variant: the upper bound of a field created by length is exclusive
PushBounds_UpperExclusive(r, field) ==
    IF field.creation_type = "ByLength"
    THEN [field EXCEPT !.lower_offset = r.calculated_length,
                       !.upper_offset = r.calculated_length + field.length]
    ELSE field

\* push, "adjust field bounds, depending on how the field was defined"
PushBounds(r, field) ==
    IF field.creation_type = "ByLength"
    THEN [field EXCEPT !.lower_offset = r.calculated_length,
                       !.upper_offset = r.calculated_length + field.length - 1]
    ELSE field

\* push, the record's new calculated_length
PushLength(r, field) ==
    IF field.creation_type = "ByLength"
    THEN r.calculated_length + field.length
    ELSE field.upper_offset + 1

Record_push(r, field) ==
    LET f1 == [field EXCEPT !.index = Len(r.flist),
                            !.offset_from_origin = r.calculated_length]
        f2 == PushBounds(r, f1)
        f3 == [f2 EXCEPT !.multiplicity = PushMultiplicity(r, f2)]
        f4 == [f3 EXCEPT !.id = f3.name \o ToString(f3.multiplicity)]
    IN  [r EXCEPT !.flist = Append(@, f4),
                  !.calculated_length = PushLength(r, field)]

\* Record::value: the concatenation of the raw values
RECURSIVE JoinRaw(_)
JoinRaw(fl) == IF fl = <<>> THEN <<>> ELSE Head(fl).raw_value \o JoinRaw(Tail(fl))

Record_value(r) == JoinRaw(r.flist)

\* Record::get_value: the caller panics when the name is absent
Record_get_value(r, fname) ==
    LET fields == Record_get(r, fname)
    IN  IF fields.is_some
        THEN [ok |-> TRUE, v |-> Field_value(fields.v[1])]
        ELSE [ok |-> FALSE, v |-> <<>>]

\* format!("{:length$} ", value): left-aligned, padded with spaces to `length`
\* codepoints, followed by one space
FormatPad(value, length) == value \o Spaces(Max(0, length - Len(value))) \o <<" ">>

\* faulty variant: the line is used as it is
Record_adjust_value_NoPad(r, value) == value

\* Record::adjust_value: value.len() is the length in bytes
Record_adjust_value(r, value) ==
    IF ByteLen(value) < r.calculated_length
    THEN FormatPad(value, r.calculated_length)
    ELSE value

\* AsciiMode: &s[f.lower_offset..f.upper_offset + 1] panics out of range or
\* off a codepoint boundary
RECURSIVE AsciiSetFrom(_, _, _)
AsciiSetFrom(fl, s, i) ==
    IF i > Len(fl) THEN [flist |-> fl, ok |-> TRUE]
    ELSE LET f == fl[i]
         IN  IF ~SliceOk(s, f.lower_offset, f.upper_offset + 1)
             THEN [flist |-> fl, ok |-> FALSE]
             ELSE AsciiSetFrom(
                    [fl EXCEPT ![i] = Field_set_value(
                        f, StrSlice(s, f.lower_offset, f.upper_offset + 1))],
                    s, i + 1)

Record_set_value_ascii(r, value) ==
    LET s == Record_adjust_value(r, value)
        res == AsciiSetFrom(r.flist, s, 1)
    IN  [rec |-> [r EXCEPT !.flist = res.flist], ok |-> res.ok]

\* faulty variant: one codepoint too few is skipped
Utf8Slice_SkipOff(s, f) == Take(Skip(s, Max(0, f.lower_offset - 1)), f.length)

\* UTF8Mode: s.chars().skip(f.lower_offset).take(f.length).collect()
Utf8Slice(s, f) == Take(Skip(s, f.lower_offset), f.length)

Record_set_value_utf8(r, value) ==
    LET s == Record_adjust_value(r, value)
    IN  [rec |-> [r EXCEPT !.flist =
                    [i \in 1..Len(r.flist) |->
                        Field_set_value(r.flist[i], Utf8Slice(s, r.flist[i]))]],
         ok |-> TRUE]

Record_set_value(m, r, value) ==
    IF m = "ascii" THEN Record_set_value_ascii(r, value)
    ELSE Record_set_value_utf8(r, value)


(***************************************************************************)
(* Specification Spec: one record, built by push and populated by          *)
(* set_value, in either slicing mode.                                      *)
(***************************************************************************)
NoLayout == [rec_length |-> 0, rec_map |-> <<>>, last_rec_name |-> <<>>]
NoValid == [ok |-> TRUE, name |-> <<>>, expected |-> 0, actual |-> 0]
NoMapper == [mtype |-> "", dmn |-> <<>>, range |-> <<0, 0>>]
NoResult == [ok |-> TRUE, v |-> <<>>]
NoFilterResult == [ok |-> TRUE, v |-> TRUE]
\* the arguments of a run of urr without options
NoArgs ==
    [strict |-> FALSE, lazy |-> FALSE, reader_mode |-> "Strict", only_read |-> FALSE,
     sample_size |-> [is_some |-> FALSE, v |-> 0],
     record_filter_list |-> [is_some |-> FALSE, v |-> <<>>],
     filter_list |-> [is_some |-> FALSE, v |-> <<>>],
     skip_fields |-> [is_some |-> FALSE, v |-> {}]]
NoField == [ok |-> TRUE, name |-> "", lower |-> 0, upper |-> 0,
            f |-> Field_from_length("", "string", 0)]
NoReader ==
    [file |-> <<>>, lazyness |-> "Lazy", ignore_line |-> [is_set |-> FALSE, pattern |-> <<>>],
     nb_lines_read |-> 0, nb_chars_read |-> 0, nb_lines_skipped |-> 0,
     nb_lines_ignored |-> 0, yielded |-> <<>>]

Lines == Strings(Alphabet, MaxLine)

\* the fields a caller builds: by length, or by 1-based inclusive offsets
NewFields(names, ftypes) ==
    {Field_from_length(n, t, l) : n \in names, t \in ftypes, l \in 1..MaxLen}
    \cup
    {Field_from_offset(n, t, ab[1], ab[2]) :
        n \in names, t \in ftypes,
        ab \in {x \in (1..MaxOff) \X (1..MaxOff) : x[1] <= x[2]}}

RecordInit ==
    /\ mode \in {"ascii", "utf8"}
    /\ cmd_args = NoArgs
    /\ writer = <<>>
    /\ rec = Record_new("R", 0)
    /\ op = "new"
    /\ line = <<>>
    /\ status = "ok"

FilterIdle == UNCHANGED <<filt, fres>>
LayoutIdle == UNCHANGED <<layout, valid>>
MapperIdle == UNCHANGED <<mapper, mres>>
ReaderIdle == UNCHANGED reader
FieldIdle == UNCHANGED fld

Init ==
    /\ RecordInit
    /\ filt = <<>>
    /\ fres = NoFilterResult
    /\ layout = NoLayout
    /\ valid = NoValid
    /\ mapper = NoMapper
    /\ mres = NoResult
    /\ reader = NoReader
    /\ fld = NoField

\* rec.push(field), while the record is being built (before it is populated)
PushOf(fields, maxFields) ==
    /\ status = "ok"
    /\ op \notin {"set_value", "is_filter_matched"}
    /\ Len(rec.flist) < maxFields
    /\ \E field \in fields :
          rec' = Record_push(rec, field)
    /\ op' = "push"
    /\ UNCHANGED <<cmd_args, writer, mode, line, status>>
    /\ FilterIdle /\ LayoutIdle /\ MapperIdle /\ ReaderIdle /\ FieldIdle

\* rec.set_value(value) on the record as built
SetValueOf(values) ==
    /\ status = "ok"
    /\ op \notin {"set_value", "is_filter_matched"}
    /\ \E value \in values :
          LET res == Record_set_value(mode, rec, value)
          IN  /\ rec' = res.rec
              /\ status' = IF res.ok THEN "ok" ELSE "panic"
              /\ line' = value
    /\ op' = "set_value"
    /\ UNCHANGED <<cmd_args, writer, mode>>
    /\ FilterIdle /\ LayoutIdle /\ MapperIdle /\ ReaderIdle /\ FieldIdle

Push == PushOf(NewFields({"A"}, {"string"}), MaxFields)

SetValue == SetValueOf(Lines)

Next == Push \/ SetValue

Spec == Init /\ [][Next]_vars

(***************************************************************************)
(* The claims about slicing (checked under Spec).                          *)
(***************************************************************************)
\* the length of a string in the slicing unit of the mode
UnitLen(m, s) == IF m = "ascii" THEN ByteLen(s) ELSE Len(s)

\* units lo..hi (0-based, inclusive) of a string, in the slicing unit
UnitSub(m, s, lo, hi) ==
    IF m = "ascii" THEN StrSlice(s, lo, hi + 1) ELSE SubSeq(s, lo + 1, hi + 1)

\* the line right-padded with spaces up to the calculated length
PaddedLine(m, r, value) ==
    value \o Spaces(Max(0, r.calculated_length - UnitLen(m, value)))

AllByLength(r) == \A i \in 1..Len(r.flist) : r.flist[i].creation_type = "ByLength"

Populated == op = "set_value" /\ status = "ok"

\* C1: after set_value(L) every field holds as raw_value the units
\* lower_offset..upper_offset (inclusive) of the adjusted line, bytes in
\* ASCII mode and codepoints in UTF-8 mode.
C1_FieldsHoldSlice ==
    Populated =>
        LET s == PaddedLine(mode, rec, line)
        IN  \A i \in 1..Len(rec.flist) :
                LET f == rec.flist[i]
                IN  /\ f.upper_offset < UnitLen(mode, s)
                    /\ f.raw_value = UnitSub(mode, s, f.lower_offset, f.upper_offset)

\* C2: round trip.  For a record of fields created by length and a line of
\* at least calculated_length units, value() after set_value is the first
\* calculated_length units of the line (the line itself when the lengths
\* are equal).
C2_RoundTrip ==
    (Populated /\ AllByLength(rec) /\ UnitLen(mode, line) >= rec.calculated_length) =>
        Record_value(rec) =
            IF rec.calculated_length = 0 THEN <<>>
            ELSE UnitSub(mode, line, 0, rec.calculated_length - 1)

C2_Witness ==
    /\ Populated /\ AllByLength(rec)
    /\ mode = "utf8"
    /\ Len(rec.flist) = 2
    /\ Len(line) = rec.calculated_length
    /\ \E i, j \in 1..Len(line) : line[i] = "U" /\ line[j] = "a"
    /\ Record_value(rec) = line

\* C3 (for the records of fields created by length, where value() covers
\* every position): a line shorter than calculated_length is populated as
\* if right-padded with spaces: value() is the line followed by spaces up
\* to calculated_length, and a field lying wholly beyond the end of the
\* line holds length spaces and an empty trimmed value.
C3_ShortLinePadded ==
    (Populated /\ AllByLength(rec) /\ UnitLen(mode, line) < rec.calculated_length) =>
        /\ Record_value(rec) = PaddedLine(mode, rec, line)
        /\ \A i \in 1..Len(rec.flist) :
              LET f == rec.flist[i]
              IN  f.lower_offset >= UnitLen(mode, line) =>
                    /\ f.raw_value = Spaces(f.length)
                    /\ f.str_value = <<>>

\* C4: after any set_value every field's raw_value has exactly length units
\* of the record's slicing unit.
C4_RawLength ==
    Populated =>
        \A i \in 1..Len(rec.flist) :
            UnitLen(mode, rec.flist[i].raw_value) = rec.flist[i].length

(***************************************************************************)
(* Specification SpecNames: a record whose fields carry several names,     *)
(* some of them more than once, built by push and then populated.          *)
(***************************************************************************)
NamedFields == {Field_from_length(n, "string", l) : n \in FieldNames, l \in 1..MaxLen}

NameLines == Strings({"a", " "}, MaxNameLine)

NamesPush == PushOf(NamedFields, MaxNameFields)

NamesSetValue == SetValueOf(NameLines)

NamesNext == NamesPush \/ NamesSetValue

SpecNames == Init /\ [][NamesNext]_vars

\* the positions of the fields of a name
Occurrences(r, n) == {i \in 1..Len(r.flist) : r.flist[i].name = n}

SetMin(S) == CHOOSE x \in S : \A y \in S : x <= y

\* C10: for a name that occurs k times, get(name) is those k fields in
\* append order, with multiplicities 0..k-1 in that order; get is None iff
\* no field carries the name; get_value(name) is the trimmed value of the
\* first occurrence.
C10_GetMultiplicity ==
    \A n \in FieldNames :
        LET occ == Occurrences(rec, n)
            g == Record_get(rec, n)
            gv == Record_get_value(rec, n)
        IN  /\ g.is_some <=> occ # {}
            /\ g.is_some =>
                 /\ Len(g.v) = Cardinality(occ)
                 /\ \A j \in 1..Len(g.v) :
                       /\ g.v[j].index + 1 \in occ
                       /\ g.v[j] = rec.flist[g.v[j].index + 1]
                       /\ j > 1 => g.v[j - 1].index < g.v[j].index
                       /\ g.v[j].multiplicity = j - 1
            /\ gv.ok <=> occ # {}
            /\ gv.ok => gv.v = Trim(rec.flist[SetMin(occ)].raw_value)

C10_Witness ==
    /\ Populated
    /\ Len(rec.flist) = 3
    /\ rec.flist[1].name = "A" /\ rec.flist[2].name = "B" /\ rec.flist[3].name = "A"
    /\ rec.flist[3].multiplicity = 1
    /\ rec.flist[1].raw_value = <<" ", "a">>
    /\ Record_get_value(rec, "A").v = <<"a">>
    /\ Len(Record_get(rec, "A").v) = 2

(***************************************************************************)
(* RecordMapper (mapper.rs): the closure that maps a line to a record id.  *)
(* Specification SpecMapper: a mapper is built, then applied to lines.     *)
(***************************************************************************)
MaxRange == 3        \* greatest bound of a range domain
MaxMapLine == 3      \* codepoints of a dispatched line

DigitChars == <<"0", "1", "2", "3", "4", "5", "6", "7", "8", "9">>

IsDigit(c) == \E i \in 1..10 : DigitChars[i] = c

DigitVal(c) == (CHOOSE i \in 1..10 : DigitChars[i] = c) - 1

AllDigits(s) == s # <<>> /\ \A i \in 1..Len(s) : IsDigit(s[i])

\* str::parse::<usize>() of a string of digits
RECURSIVE ParseUsize(_)
ParseUsize(s) ==
    IF s = <<>> THEN 0
    ELSE 10 * ParseUsize(SubSeq(s, 1, Len(s) - 1)) + DigitVal(s[Len(s)])

\* the matches <<i, j, k>> of (\d+)\.\.(\d+) in domain: r_inf is domain[i..j],
\* r_sup is domain[j+3..k]
RangeMatches(domain) ==
    {m \in (1..Len(domain)) \X (1..Len(domain)) \X (1..Len(domain)) :
        /\ m[1] <= m[2]
        /\ m[2] + 3 <= m[3]
        /\ AllDigits(SubSeq(domain, m[1], m[2]))
        /\ domain[m[2] + 1] = "."
        /\ domain[m[2] + 2] = "."
        /\ AllDigits(SubSeq(domain, m[2] + 3, m[3]))}

\* Regex::captures: the leftmost match, each group greedy
RangeCaptures(domain) ==
    LET ms == RangeMatches(domain)
        m == CHOOSE x \in ms :
                \A y \in ms : x[1] < y[1] \/ (x[1] = y[1] /\ x[3] >= y[3])
    IN  [is_some |-> ms # {},
         r_inf |-> IF ms = {} THEN <<>> ELSE SubSeq(domain, m[1], m[2]),
         r_sup |-> IF ms = {} THEN <<>> ELSE SubSeq(domain, m[2] + 3, m[3])]

\* RecordMapper::new does not panic
RecordMapper_new_ok(mtype, domain) ==
    \/ mtype = "constant"
    \/ mtype = "range" /\ RangeCaptures(domain).is_some

\* RecordMapper::new: the values the closure captures
RecordMapper_new(mtype, domain) ==
    IF mtype = "range"
    THEN LET caps == RangeCaptures(domain)
         IN  [mtype |-> mtype, dmn |-> <<>>,
              range |-> <<ParseUsize(caps.r_inf), ParseUsize(caps.r_sup)>>]
    ELSE [mtype |-> mtype, dmn |-> domain, range |-> <<0, 0>>]

\* (mapper.func)(x): the record id of line x; the byte slice of the range
\* closure panics when the range does not lie within the line
RecordMapper_func(m, x) ==
    IF m.mtype = "constant" THEN [ok |-> TRUE, v |-> m.dmn]
    ELSE IF SliceOk(x, m.range[1], m.range[2])
         THEN [ok |-> TRUE, v |-> StrSlice(x, m.range[1], m.range[2])]
         ELSE [ok |-> FALSE, v |-> <<>>]

MapperTypes == {"constant", "range", "fancy", "complex"}

RangeDomains ==
    {<<DigitChars[a + 1], ".", ".", DigitChars[b + 1]>> : a, b \in 0..MaxRange}

MapperDomains == RangeDomains \cup {<<"F">>}

MapLines == Strings({"a", "U"}, MaxMapLine)

RecordIdle == UNCHANGED <<cmd_args, writer, mode, rec, fld>>

MapperInit ==
    /\ mode = "ascii"
    /\ cmd_args = NoArgs
    /\ writer = <<>>
    /\ rec = Record_new("R", 0)
    /\ op = "start"
    /\ line = <<>>
    /\ status = "ok"
    /\ filt = <<>>
    /\ fres = NoFilterResult
    /\ layout = NoLayout
    /\ valid = NoValid
    /\ mapper = NoMapper
    /\ mres = NoResult
    /\ reader = NoReader
    /\ fld = NoField

\* RecordMapper::new(mtype, domain)
MapperNew ==
    /\ op = "start"
    /\ \E mtype \in MapperTypes, domain \in MapperDomains :
          IF RecordMapper_new_ok(mtype, domain)
          THEN /\ mapper' = RecordMapper_new(mtype, domain)
               /\ status' = "ok"
          ELSE /\ mapper' = [NoMapper EXCEPT !.mtype = mtype]
               /\ status' = "panic"
    /\ op' = "new"
    /\ UNCHANGED <<line, mres>>
    /\ RecordIdle /\ FilterIdle /\ LayoutIdle /\ ReaderIdle

\* (mapper.func)(line)
MapperDispatch ==
    /\ op = "new"
    /\ status = "ok"
    /\ \E x \in MapLines :
          LET res == RecordMapper_func(mapper, x)
          IN  /\ line' = x
              /\ mres' = res
              /\ status' = IF res.ok THEN "ok" ELSE "panic"
    /\ op' = "dispatch"
    /\ UNCHANGED mapper
    /\ RecordIdle /\ FilterIdle /\ LayoutIdle /\ ReaderIdle

MapperNext == MapperNew \/ MapperDispatch

SpecMapper == MapperInit /\ [][MapperNext]_vars

\* C7: the dispatcher is total: applied to any line, the constant strategy
\* returns its constant and the range strategy a..b returns an id, the bytes
\* a..b of the line, without failing, lines shorter than b included.
C7_MapperTotal ==
    op = "dispatch" =>
        /\ mres.ok
        /\ mapper.mtype = "constant" => mres.v = mapper.dmn
        /\ mapper.mtype = "range" =>
              mres.v = Decode(SubSeq(Encode(line), mapper.range[1] + 1, mapper.range[2]))

(***************************************************************************)
(* Layout (layout.rs).  rec_map is a function from record names to         *)
(* records; a HashMap iterates in an unspecified order.                    *)
(* Specification SpecLayout: the elements of a layout file are read one    *)
(* by one, then is_valid is called on the layout.                          *)
(***************************************************************************)
MaxLayoutLen == 2      \* reclength, record length and field length attributes
MaxLayoutFields == 2   \* fields of one record of a layout

\* HashMap::insert
MapInsert(m, k, v) == [x \in DOMAIN m \cup {k} |-> IF x = k THEN v ELSE m[x]]

\* the local variables of Layout::new before the first element
Layout_start == [rec_length |-> 0, rec_map |-> <<>>, last_rec_name |-> <<>>]

\* <meta reclength=...>
Layout_meta(l, reclength) == [l EXCEPT !.rec_length = reclength]

\* <record name=... length=...>
Layout_record(l, name, length) ==
    [l EXCEPT !.last_rec_name = name,
              !.rec_map = MapInsert(l.rec_map, name, Record_new(name, length))]

\* <field ...> needs a record to add the field to
Layout_field_ok(l) == l.last_rec_name \in DOMAIN l.rec_map

\* <field ...>: the field is pushed onto the last record met
Layout_field(l, field) ==
    [l EXCEPT !.rec_map[l.last_rec_name] = Record_push(l.rec_map[l.last_rec_name], field)]

Layout_contains_record(l, name) == name \in DOMAIN l.rec_map

Layout_get(l, name) ==
    [is_some |-> name \in DOMAIN l.rec_map,
     v |-> IF name \in DOMAIN l.rec_map THEN l.rec_map[name] ELSE Record_new(name, 0)]

\* the records at which the loop of Layout::is_valid returns false
InvalidRecords(l) ==
    IF l.rec_length # 0
    THEN {n \in DOMAIN l.rec_map : l.rec_length # l.rec_map[n].calculated_length}
    ELSE {n \in DOMAIN l.rec_map :
             l.rec_map[n].declared_length # l.rec_map[n].calculated_length}

\* Layout::is_valid: every tuple it can return, the loop stopping at the first
\* failing record of the iteration order
Layout_is_valid(l) ==
    IF InvalidRecords(l) = {} THEN {[ok |-> TRUE, name |-> <<>>, expected |-> 0, actual |-> 0]}
    ELSE {[ok |-> FALSE,
           name |-> IF l.rec_length # 0 THEN <<>> ELSE l.rec_map[n].name,
           expected |-> IF l.rec_length # 0 THEN l.rec_length
                        ELSE l.rec_map[n].declared_length,
           actual |-> l.rec_map[n].calculated_length] : n \in InvalidRecords(l)}

RecordNames == {<<"a">>, <<"b">>}

LayoutFields ==
    {Field_from_length("A", "string", l) : l \in 1..MaxLayoutLen}
    \cup
    {Field_from_offset("A", "string", ab[1], ab[2]) :
        ab \in {x \in (1..MaxLayoutLen) \X (1..MaxLayoutLen) : x[1] <= x[2]}}

LayoutInit ==
    /\ mode = "ascii"
    /\ cmd_args = NoArgs
    /\ writer = <<>>
    /\ rec = Record_new("R", 0)
    /\ op = "start"
    /\ line = <<>>
    /\ status = "ok"
    /\ filt = <<>>
    /\ fres = NoFilterResult
    /\ layout = Layout_start
    /\ valid = NoValid
    /\ mapper = NoMapper
    /\ mres = NoResult
    /\ reader = NoReader
    /\ fld = NoField

LayoutRest ==
    /\ UNCHANGED <<line, valid>>
    /\ RecordIdle /\ FilterIdle /\ MapperIdle /\ ReaderIdle

\* the <meta> element, the first of a layout file
XmlMeta ==
    /\ op = "start"
    /\ \E reclength \in 0..MaxLayoutLen : layout' = Layout_meta(layout, reclength)
    /\ op' = "meta"
    /\ UNCHANGED status
    /\ LayoutRest

\* a <record> element
XmlRecord ==
    /\ status = "ok"
    /\ op \in {"start", "meta", "record", "field"}
    /\ \E name \in RecordNames, length \in 0..MaxLayoutLen :
          layout' = Layout_record(layout, name, length)
    /\ op' = "record"
    /\ UNCHANGED status
    /\ LayoutRest

\* a <field> element
XmlField ==
    /\ status = "ok"
    /\ op \in {"start", "meta", "record", "field"}
    /\ IF Layout_field_ok(layout)
       THEN /\ Len(layout.rec_map[layout.last_rec_name].flist) < MaxLayoutFields
            /\ \E field \in LayoutFields : layout' = Layout_field(layout, field)
            /\ status' = "ok"
       ELSE /\ layout' = layout
            /\ status' = "panic"
    /\ op' = "field"
    /\ LayoutRest

\* layout.is_valid() on the loaded layout
IsValid ==
    /\ status = "ok"
    /\ op \in {"start", "meta", "record", "field"}
    /\ \E res \in Layout_is_valid(layout) : valid' = res
    /\ op' = "is_valid"
    /\ UNCHANGED <<line, layout, status>>
    /\ RecordIdle /\ FilterIdle /\ MapperIdle /\ ReaderIdle

LayoutNext == XmlMeta \/ XmlRecord \/ XmlField \/ IsValid

SpecLayout == LayoutInit /\ [][LayoutNext]_vars

\* C9: is_valid reports ok exactly when (a) rec_length > 0 and every record's
\* calculated_length equals it, or (b) rec_length is 0 and every record's
\* declared_length is 0 or equals its calculated_length.
C9_IsValidIff ==
    op = "is_valid" =>
        (valid.ok <=>
            \/ /\ layout.rec_length > 0
               /\ \A n \in DOMAIN layout.rec_map :
                     layout.rec_map[n].calculated_length = layout.rec_length
            \/ /\ layout.rec_length = 0
               /\ \A n \in DOMAIN layout.rec_map :
                     \/ layout.rec_map[n].declared_length = 0
                     \/ layout.rec_map[n].declared_length
                            = layout.rec_map[n].calculated_length)

(***************************************************************************)
(* Filters (filter/fieldfilter.rs, filter/recordfilter.rs, types/*.rs,     *)
(* Field::is_filter_matched, Record::is_filter_matched).                   *)
(* Specification SpecFilter: a record is built and populated, then matched *)
(* against a record filter.                                                *)
(***************************************************************************)
MaxFilterFields == 2   \* fields pushed onto the record
MaxFilterLine == 2     \* codepoints of the input line
MaxConj == 2           \* field filters of a record filter

\* the code of a character: strings compare as their UTF-8 bytes do, which is
\* the order of the codepoints
CharCode(c) ==
    CASE c = " " -> 32
      [] c = "+" -> 43
      [] c = "-" -> 45
      [] c = "." -> 46
      [] IsDigit(c) -> 48 + DigitVal(c)
      [] c = "^" -> 94
      [] c = "a" -> 97
      [] c = "U" -> 945
      [] OTHER -> 63

\* lhs < rhs on str
RECURSIVE StrLt(_, _)
StrLt(lhs, rhs) ==
    IF rhs = <<>> THEN FALSE
    ELSE IF lhs = <<>> THEN TRUE
    ELSE IF CharCode(Head(lhs)) # CharCode(Head(rhs))
         THEN CharCode(Head(lhs)) < CharCode(Head(rhs))
    ELSE StrLt(Tail(lhs), Tail(rhs))

\* value.parse::<i64>() succeeds: an optional sign, then digits
IntParse_ok(s) ==
    \/ AllDigits(s)
    \/ Len(s) >= 2 /\ s[1] \in {"+", "-"} /\ AllDigits(Tail(s))

\* value.parse::<i64>()
IntParse(s) ==
    IF s # <<>> /\ s[1] = "-" THEN 0 - ParseUsize(Tail(s))
    ELSE IF s # <<>> /\ s[1] = "+" THEN ParseUsize(Tail(s))
    ELSE ParseUsize(s)

\* value.parse::<u64>() succeeds: an optional +, then digits
UintParse_ok(s) ==
    \/ AllDigits(s)
    \/ Len(s) >= 2 /\ s[1] = "+" /\ AllDigits(Tail(s))

\* the digits and the point of a decimal literal, its sign removed
Unsigned(s) == IF s # <<>> /\ s[1] \in {"+", "-"} THEN Tail(s) ELSE s

\* the positions of the decimal point
Points(s) == {i \in 1..Len(s) : s[i] = "."}

\* value.parse::<f64>() succeeds, for the literals of the model: an optional
\* sign, then digits with at most one decimal point and at least one digit
DecimalParse_ok(s) ==
    LET u == Unsigned(s)
    IN  /\ \E i \in 1..Len(u) : IsDigit(u[i])
        /\ \A i \in 1..Len(u) : IsDigit(u[i]) \/ u[i] = "."
        /\ Cardinality(Points(u)) <= 1

\* the digits after the decimal point are kept to this many places
DecimalPlaces == 3

RECURSIVE Pow10(_)
Pow10(n) == IF n = 0 THEN 1 ELSE 10 * Pow10(n - 1)

\* value.parse::<f64>(), in units of 10^-DecimalPlaces
DecimalParse(s) ==
    LET u == Unsigned(s)
        p == IF Points(u) = {} THEN Len(u) + 1 ELSE CHOOSE i \in Points(u) : TRUE
        int == SubSeq(u, 1, p - 1)
        frac == SubSeq(u, p + 1, Len(u))
        mag == ParseUsize(int) * Pow10(DecimalPlaces)
                 + ParseUsize(frac) * Pow10(DecimalPlaces - Len(frac))
    IN  IF s # <<>> /\ s[1] = "-" THEN 0 - mag ELSE mag

\* the types compared through Compare<T>
ComparedTypes == {"int", "uint", "decimal"}

\* Compare::to_t does not panic
TypeParse_ok(ftype, s) ==
    CASE ftype = "int" -> IntParse_ok(s)
      [] ftype = "uint" -> UintParse_ok(s)
      [] OTHER -> DecimalParse_ok(s)

\* Compare::to_t
TypeParse(ftype, s) ==
    CASE ftype = "int" -> IntParse(s)
      [] ftype = "uint" -> IntParse(s)
      [] OTHER -> DecimalParse(s)

\* faulty variant: an operand that does not parse makes the comparison false
BaseType_compare_NoPanic(ftype, cmp, lhs, rhs) ==
    IF ftype \in ComparedTypes
    THEN IF TypeParse_ok(ftype, lhs) /\ TypeParse_ok(ftype, rhs)
         THEN [ok |-> TRUE,
               v |-> CASE cmp = "eq" -> TypeParse(ftype, lhs) = TypeParse(ftype, rhs)
                       [] cmp = "lt" -> TypeParse(ftype, lhs) < TypeParse(ftype, rhs)
                       [] OTHER -> TypeParse(ftype, lhs) > TypeParse(ftype, rhs)]
         ELSE [ok |-> TRUE, v |-> FALSE]
    ELSE [ok |-> TRUE,
          v |-> CASE cmp = "eq" -> lhs = rhs
                  [] cmp = "lt" -> StrLt(lhs, rhs)
                  [] OTHER -> StrLt(rhs, lhs)]

\* BaseType::eq / lt / gt: strings compare as they are; numbers are parsed
\* first, and Compare::to_t panics on a string that does not parse
BaseType_compare(ftype, cmp, lhs, rhs) ==
    IF ftype \in ComparedTypes
    THEN IF TypeParse_ok(ftype, lhs) /\ TypeParse_ok(ftype, rhs)
         THEN [ok |-> TRUE,
               v |-> CASE cmp = "eq" -> TypeParse(ftype, lhs) = TypeParse(ftype, rhs)
                       [] cmp = "lt" -> TypeParse(ftype, lhs) < TypeParse(ftype, rhs)
                       [] OTHER -> TypeParse(ftype, lhs) > TypeParse(ftype, rhs)]
         ELSE [ok |-> FALSE, v |-> FALSE]
    ELSE [ok |-> TRUE,
          v |-> CASE cmp = "eq" -> lhs = rhs
                  [] cmp = "lt" -> StrLt(lhs, rhs)
                  [] OTHER -> StrLt(rhs, lhs)]

\* Regex::is_match for the patterns of the model: literal characters, with an
\* optional leading ^
Regex_is_match(pattern, s) ==
    IF pattern # <<>> /\ pattern[1] = "^"
    THEN /\ Len(s) >= Len(pattern) - 1
         /\ SubSeq(s, 1, Len(pattern) - 1) = Tail(pattern)
    ELSE \E i \in 1..(Len(s) + 1) :
            /\ i + Len(pattern) - 1 <= Len(s)
            /\ SubSeq(s, i, i + Len(pattern) - 1) = pattern

\* FieldFilterOp::from
FieldFilterOp_from(op_str) ==
    CASE op_str = <<"=">> -> "OpEqual"
      [] op_str = <<"!", "=">> -> "OpNotEqual"
      [] op_str = <<"~">> -> "OpSimilar"
      [] op_str = <<"!", "~">> -> "OpNotSimilar"
      [] op_str = <<"<">> -> "OpLessThan"
      [] op_str = <<">">> -> "OpGreaterThan"
      [] OTHER -> "panic"

\* FieldFilter::new
FieldFilter_new(fname, op_str, fvalue) ==
    [fname |-> fname,
     op_string |-> Trim(op_str),
     op |-> FieldFilterOp_from(Trim(op_str)),
     freg_or_value |-> Trim(fvalue)]

Negate(res) == [ok |-> res.ok, v |-> res.ok /\ ~res.v]

\* Field::is_filter_matched
Field_is_filter_matched(f, filter) ==
    CASE filter.op = "OpEqual" ->
            BaseType_compare(f.ftype, "eq", Field_value(f), filter.freg_or_value)
      [] filter.op = "OpNotEqual" ->
            Negate(BaseType_compare(f.ftype, "eq", Field_value(f), filter.freg_or_value))
      [] filter.op = "OpSimilar" ->
            [ok |-> TRUE, v |-> Regex_is_match(filter.freg_or_value, Field_value(f))]
      [] filter.op = "OpNotSimilar" ->
            [ok |-> TRUE, v |-> ~Regex_is_match(filter.freg_or_value, Field_value(f))]
      [] filter.op = "OpLessThan" ->
            BaseType_compare(f.ftype, "lt", Field_value(f), filter.freg_or_value)
      [] OTHER ->
            BaseType_compare(f.ftype, "gt", Field_value(f), filter.freg_or_value)

\* faulty variant: every occurrence of the field has to match
RECURSIVE AnyMatch_All(_, _)
AnyMatch_All(fields, filter) ==
    IF fields = <<>> THEN [ok |-> TRUE, v |-> TRUE]
    ELSE LET m == Field_is_filter_matched(Head(fields), filter)
         IN  IF ~m.ok THEN [ok |-> FALSE, v |-> FALSE]
             ELSE IF ~m.v THEN [ok |-> TRUE, v |-> FALSE]
             ELSE AnyMatch_All(Tail(fields), filter)

\* fields.iter().any(|x| x.is_filter_matched(f)): stops at the first match
RECURSIVE AnyMatch(_, _)
AnyMatch(fields, filter) ==
    IF fields = <<>> THEN [ok |-> TRUE, v |-> FALSE]
    ELSE LET m == Field_is_filter_matched(Head(fields), filter)
         IN  IF ~m.ok THEN [ok |-> FALSE, v |-> FALSE]
             ELSE IF m.v THEN [ok |-> TRUE, v |-> TRUE]
             ELSE AnyMatch(Tail(fields), filter)

\* faulty variant: a field filter naming no field of the record is not satisfied
RECURSIVE FilterLoop_AbsentFails(_, _, _, _)
FilterLoop_AbsentFails(r, expr, i, result) ==
    IF i > Len(expr) THEN [ok |-> TRUE, v |-> result]
    ELSE LET fields == Record_get(r, expr[i].fname)
         IN  IF ~fields.is_some THEN FilterLoop_AbsentFails(r, expr, i + 1, FALSE)
             ELSE LET m == AnyMatch(fields.v, expr[i])
                  IN  IF ~m.ok THEN [ok |-> FALSE, v |-> FALSE]
                      ELSE FilterLoop_AbsentFails(r, expr, i + 1, result /\ m.v)

\* the loop of Record::is_filter_matched from the i-th field filter on
RECURSIVE FilterLoop(_, _, _, _)
FilterLoop(r, expr, i, result) ==
    IF i > Len(expr) THEN [ok |-> TRUE, v |-> result]
    ELSE LET fields == Record_get(r, expr[i].fname)
         IN  IF ~fields.is_some THEN FilterLoop(r, expr, i + 1, result)
             ELSE LET m == AnyMatch(fields.v, expr[i])
                  IN  IF ~m.ok THEN [ok |-> FALSE, v |-> FALSE]
                      ELSE FilterLoop(r, expr, i + 1, result /\ m.v)

\* Record::is_filter_matched
Record_is_filter_matched(r, expr) == FilterLoop(r, expr, 1, TRUE)

FilterFields == {Field_from_length(n, t, 1) : n \in FieldNames, t \in {"string", "int"}}

FilterLines == Strings({"a", "1"}, MaxFilterLine)

FieldFilters ==
    {FieldFilter_new(n, o, v) :
        n \in FieldNames \cup {"Z"},
        o \in {<<"=">>, <<"!", "=">>, <<"~">>, <<"!", "~">>, <<"<">>, <<">">>},
        v \in {<<"1">>, <<"^", "a">>}}

RecordFilters == UNION {[1..k -> FieldFilters] : k \in 0..MaxConj}

FilterInit ==
    /\ mode = "ascii"
    /\ cmd_args = NoArgs
    /\ writer = <<>>
    /\ rec = Record_new("R", 0)
    /\ op = "new"
    /\ line = <<>>
    /\ status = "ok"
    /\ filt = <<>>
    /\ fres = NoFilterResult
    /\ layout = NoLayout
    /\ valid = NoValid
    /\ mapper = NoMapper
    /\ mres = NoResult
    /\ reader = NoReader
    /\ fld = NoField

FilterPush == PushOf(FilterFields, MaxFilterFields)

FilterSetValue == SetValueOf(FilterLines)

\* rec.is_filter_matched(&filter)
IsFilterMatched ==
    /\ status = "ok"
    /\ op # "is_filter_matched"
    /\ \E expr \in RecordFilters :
          LET res == Record_is_filter_matched(rec, expr)
          IN  /\ filt' = expr
              /\ fres' = res
              /\ status' = IF res.ok THEN "ok" ELSE "panic"
    /\ op' = "is_filter_matched"
    /\ UNCHANGED line
    /\ RecordIdle /\ LayoutIdle /\ MapperIdle /\ ReaderIdle

FilterNext == FilterPush \/ FilterSetValue \/ IsFilterMatched

SpecFilter == FilterInit /\ [][FilterNext]_vars

\* the occurrence f satisfies the field filter
Matches(f, filter) ==
    Field_is_filter_matched(f, filter).ok /\ Field_is_filter_matched(f, filter).v

\* the field filter names no field of the record
Absent(r, filter) == \A j \in 1..Len(r.flist) : r.flist[j].name # filter.fname

\* C8: when is_filter_matched returns, its result is the conjunction over the
\* field filters of: the named field is absent from the record, or at least
\* one occurrence of it matches; a filter that is empty or names absent fields
\* only matches, always.
C8_FilterConjunction ==
    op = "is_filter_matched" =>
        /\ fres.ok =>
              (fres.v <=>
                  \A i \in 1..Len(filt) :
                      \/ Absent(rec, filt[i])
                      \/ \E j \in 1..Len(rec.flist) :
                            /\ rec.flist[j].name = filt[i].fname
                            /\ Matches(rec.flist[j], filt[i]))
        /\ (\A i \in 1..Len(filt) : Absent(rec, filt[i])) => fres.ok /\ fres.v

\* a filter of an absent field and of a field whose second occurrence alone
\* matches has matched the record
C8_Witness ==
    /\ op = "is_filter_matched"
    /\ fres.ok /\ fres.v
    /\ Len(filt) = 2
    /\ Absent(rec, filt[1])
    /\ Len(rec.flist) = 2
    /\ rec.flist[1].name = filt[2].fname
    /\ rec.flist[2].name = filt[2].fname
    /\ ~Matches(rec.flist[1], filt[2])
    /\ Matches(rec.flist[2], filt[2])

(***************************************************************************)
(* Streaming reader (the reader module: Reader::new, next, set_lazyness,   *)
(* ignore_line).  nb_lines_ignored and yielded are history kept by the     *)
(* model: the lines dropped by the ignore regex, and the (line number,     *)
(* record) pairs yielded so far.                                           *)
(* Specification SpecReader: a reader over a file and a loaded layout is   *)
(* configured and iterated.                                                *)
(***************************************************************************)
MaxFile == 4           \* lines of the input file

\* Reader::new(file, layout); no line is ignored by default
Reader_new(file, lazyness) ==
    [file |-> file, lazyness |-> lazyness,
     ignore_line |-> [is_set |-> FALSE, pattern |-> <<>>],
     nb_lines_read |-> 0, nb_chars_read |-> 0, nb_lines_skipped |-> 0,
     nb_lines_ignored |-> 0, yielded |-> <<>>]

\* reader.set_lazyness(lazyness)
Reader_set_lazyness(r, lazyness) == [r EXCEPT !.lazyness = lazyness]

\* reader.ignore_line = Regex::new(pattern)
Reader_ignore_line(r, pattern) ==
    [r EXCEPT !.ignore_line = [is_set |-> TRUE, pattern |-> pattern]]

\* step 2: the line matches the ignore regex
Reader_is_ignored(r, x) ==
    r.ignore_line.is_set /\ Regex_is_match(r.ignore_line.pattern, x)

\* step 1: the line is counted
Reader_count(r, x) ==
    [r EXCEPT !.nb_lines_read = @ + 1, !.nb_chars_read = @ + ByteLen(x)]

\* faulty variant: a skipped line is not counted as skipped
Reader_skip_NoCount(r) == r

\* step 4, Lazy: the line of an unknown record is skipped
Reader_skip(r) == [r EXCEPT !.nb_lines_skipped = @ + 1]

\* faulty variant: an unknown record is skipped whatever the mode
Reader_unknown_AlwaysLazy(r) == [reader |-> Reader_skip(r), fatal |-> FALSE]

\* step 4, record absent from the layout: the policy of the lazyness mode
Reader_unknown(r) ==
    IF r.lazyness = "Lazy" THEN [reader |-> Reader_skip(r), fatal |-> FALSE]
    ELSE [reader |-> r, fatal |-> TRUE]

\* faulty variant: the template of the layout is populated in place
Reader_populate_InPlace(l, md, name, x) ==
    LET res == Record_set_value(md, l.rec_map[name], x)
    IN  [layout |-> [l EXCEPT !.rec_map[name] = res.rec], rec |-> res.rec, ok |-> res.ok]

\* step 4, record present: the template is cloned and set_value(line) is
\* called on the clone; the layout keeps its template
Reader_populate(l, md, name, x) ==
    LET clone == l.rec_map[name]
        res == Record_set_value(md, clone, x)
    IN  [layout |-> l, rec |-> res.rec, ok |-> res.ok]

\* reader.next(): lines are read until one is yielded, the file ends or the
\* iteration fails
RECURSIVE Reader_next(_, _, _, _)
Reader_next(l, m, md, r) ==
    IF r.nb_lines_read >= Len(r.file)
    THEN [reader |-> r, status |-> "eof", rec |-> Record_new(<<>>, 0), layout |-> l]
    ELSE LET x == r.file[r.nb_lines_read + 1]
             r1 == Reader_count(r, x)
             id == RecordMapper_func(m, x)
             found == Layout_get(l, id.v)
             res == Reader_populate(l, md, id.v, x)
             unknown == Reader_unknown(r1)
         IN  IF Reader_is_ignored(r1, x)
             THEN Reader_next(l, m, md, [r1 EXCEPT !.nb_lines_ignored = @ + 1])
             ELSE IF ~id.ok
             THEN [reader |-> r1, status |-> "panic", rec |-> Record_new(<<>>, 0),
                   layout |-> l]
             ELSE IF found.is_some
             THEN IF res.ok
                  THEN [reader |-> [r1 EXCEPT !.yielded =
                                       Append(@, [line_no |-> r1.nb_lines_read,
                                                  rec |-> res.rec])],
                        status |-> "ok", rec |-> res.rec, layout |-> res.layout]
                  ELSE [reader |-> r1, status |-> "panic", rec |-> Record_new(<<>>, 0),
                        layout |-> res.layout]
             ELSE IF unknown.fatal
             THEN [reader |-> unknown.reader, status |-> "fatal",
                   rec |-> Record_new(<<>>, 0), layout |-> l]
             ELSE Reader_next(l, m, md, unknown.reader)

\* the layout of the input file: one record "a" of two fields
ReaderLayout ==
    Layout_field(
        Layout_field(Layout_record(Layout_start, <<"a">>, 2),
                     Field_from_length("A", "string", 1)),
        Field_from_length("B", "string", 1))

ReaderMappers ==
    {RecordMapper_new("range", <<"0", ".", ".", "1">>),
     RecordMapper_new("constant", <<"a">>)}

FileLines == {<<>>, <<"a", "a">>, <<"z">>, <<"#", "a">>, <<"U", "a">>}

Files == UNION {[1..k -> FileLines] : k \in 0..MaxFile}

IgnorePatterns == {<<"^", "#">>}

Lazynesses == {"Lazy", "Strict"}

ReaderInit ==
    /\ mode \in {"ascii", "utf8"}
    /\ cmd_args = NoArgs
    /\ writer = <<>>
    /\ rec = Record_new(<<>>, 0)
    /\ op = "new"
    /\ line = <<>>
    /\ status = "ok"
    /\ filt = <<>>
    /\ fres = NoFilterResult
    /\ layout = ReaderLayout
    /\ valid = NoValid
    /\ mapper \in ReaderMappers
    /\ mres = NoResult
    /\ reader \in {Reader_new(file, lz) : file \in Files, lz \in Lazynesses}
    /\ fld = NoField

ReaderRest ==
    /\ UNCHANGED <<cmd_args, writer, mode, valid>>
    /\ FilterIdle /\ MapperIdle /\ FieldIdle

\* reader.set_lazyness(lazyness), between two lines
SetLazyness ==
    /\ status = "ok"
    /\ \E lz \in Lazynesses :
          /\ reader' = Reader_set_lazyness(reader, lz)
          /\ op' = IF lz = "Lazy" THEN "set_lazy" ELSE "set_strict"
    /\ UNCHANGED <<rec, line, status, layout>>
    /\ ReaderRest

\* reader.ignore_line(regex), between two lines
IgnoreLine ==
    /\ status = "ok"
    /\ \E pattern \in IgnorePatterns : reader' = Reader_ignore_line(reader, pattern)
    /\ op' = "ignore_line"
    /\ UNCHANGED <<rec, line, status, layout>>
    /\ ReaderRest

\* reader.next(); it may be called again once the file is exhausted
ReaderNext ==
    /\ status \in {"ok", "eof"}
    /\ LET res == Reader_next(layout, mapper, mode, reader)
       IN  /\ reader' = res.reader
           /\ layout' = res.layout
           /\ status' = res.status
           /\ rec' = res.rec
           /\ line' = IF res.reader.nb_lines_read = 0 THEN <<>>
                      ELSE reader.file[res.reader.nb_lines_read]
    /\ op' = "next"
    /\ ReaderRest

ReaderCalls == SetLazyness \/ IgnoreLine \/ ReaderNext

SpecReader == ReaderInit /\ [][ReaderCalls]_vars

\* the record the reader yields for line x: the clone of the template the
\* dispatched id names, populated with x
PopulatedFor(x) ==
    Record_set_value(mode, Layout_get(layout, RecordMapper_func(mapper, x).v).v, x).rec

\* line n of the file goes through the dispatcher to an id absent from layout
UnknownLine(r, n) ==
    /\ ~Reader_is_ignored(r, r.file[n])
    /\ RecordMapper_func(mapper, r.file[n]).ok
    /\ ~Layout_contains_record(layout, RecordMapper_func(mapper, r.file[n]).v)

\* the lines a step reads
NewLines == (reader.nb_lines_read + 1)..(reader'.nb_lines_read)

\* next() has returned, a record or the end of the file
Returned == status \in {"ok", "eof"}

YieldedInOrder ==
    /\ \A i \in 1..Len(reader.yielded) :
          /\ reader.yielded[i].line_no \in 1..reader.nb_lines_read
          /\ reader.yielded[i].rec = PopulatedFor(reader.file[reader.yielded[i].line_no])
    /\ \A i, j \in 1..Len(reader.yielded) :
          i < j => reader.yielded[i].line_no < reader.yielded[j].line_no

CountersAddUp ==
    Len(reader.yielded) + reader.nb_lines_skipped + reader.nb_lines_ignored
        = reader.nb_lines_read

\* a call of next() yields at most the last line it reads, and the lines it
\* counts as ignored are those the ignore regex matches
NextStepCounts ==
    (op' = "next" /\ status' \in {"ok", "eof"}) =>
        /\ reader'.nb_lines_ignored - reader.nb_lines_ignored
              = Cardinality({n \in NewLines : Reader_is_ignored(reader, reader.file[n])})
        /\ status' = "ok" =>
              /\ reader'.yielded
                    = Append(reader.yielded,
                             [line_no |-> reader'.nb_lines_read, rec |-> rec'])
              /\ reader'.nb_lines_read > reader.nb_lines_read
        /\ status' = "eof" => reader'.yielded = reader.yielded

Exhausted ==
    status = "eof" => (reader'.yielded = reader.yielded /\ status' = "eof")

\* C5: records are yielded in the order of the input lines, each populated
\* from its line; whenever next() has returned, yielded + skipped + ignored
\* lines equals nb_lines_read; once next() has returned the end of the file,
\* nb_lines_read is the number of lines of the file and no later call yields.
C5_ReaderOrderAndCounters ==
    /\ [](Returned => (YieldedInOrder /\ CountersAddUp))
    /\ [](status = "eof" => reader.nb_lines_read = Len(reader.file))
    /\ [][NextStepCounts /\ Exhausted]_vars

\* the file is exhausted after two records were yielded, a line was skipped
\* and a line was ignored
C5_Witness ==
    /\ status = "eof"
    /\ op = "next"
    /\ Len(reader.yielded) >= 2
    /\ reader.nb_lines_skipped >= 1
    /\ reader.nb_lines_ignored >= 1

\* a call of next() in Lazy mode counts every unknown line it meets as skipped,
\* yields none of them and goes on to the next known line or the end of file
LazyStep ==
    (op' = "next" /\ status = "ok" /\ reader.lazyness = "Lazy") =>
        /\ status' # "fatal"
        /\ status' \in {"ok", "eof"} =>
              /\ reader'.nb_lines_skipped - reader.nb_lines_skipped
                    = Cardinality({n \in NewLines : UnknownLine(reader, n)})
              /\ \A n \in NewLines :
                    UnknownLine(reader, n) =>
                        \A i \in 1..Len(reader'.yielded) : reader'.yielded[i].line_no # n
              /\ \A n \in NewLines :
                    (~UnknownLine(reader, n) /\ ~Reader_is_ignored(reader, reader.file[n]))
                        => (status' = "ok" /\ n = reader'.nb_lines_read
                            /\ reader'.yielded[Len(reader'.yielded)].line_no = n)

\* a call of next() in Strict mode stops with the fatal error at the first
\* unknown line, which is not yielded and not skipped
StrictStep ==
    (op' = "next" /\ status = "ok" /\ reader.lazyness = "Strict") =>
        /\ reader'.nb_lines_skipped = reader.nb_lines_skipped
        /\ \A n \in NewLines :
              UnknownLine(reader, n) =>
                  /\ status' = "fatal"
                  /\ n = reader'.nb_lines_read
                  /\ reader'.yielded = reader.yielded
        /\ status' = "fatal" =>
              /\ reader'.nb_lines_read \in NewLines
              /\ UnknownLine(reader, reader'.nb_lines_read)

\* set_lazyness sets the mode, and no other call changes it
LazynessSet ==
    /\ op' = "set_lazy" => reader'.lazyness = "Lazy"
    /\ op' = "set_strict" => reader'.lazyness = "Strict"
    /\ op' \notin {"set_lazy", "set_strict"} => reader'.lazyness = reader.lazyness

\* C6: an unknown record id is skipped and counted in Lazy mode, the reader
\* going on with the following lines; in Strict mode it ends the iteration
\* with the fatal error, nothing being yielded for that line or any later one;
\* the mode in force is the one last set with set_lazyness.
C6_LazyStrict ==
    /\ [][LazyStep /\ StrictStep /\ LazynessSet]_vars
    /\ [][status = "fatal" => reader' = reader]_vars
    /\ [](status = "fatal" =>
            \A i \in 1..Len(reader.yielded) :
                reader.yielded[i].line_no < reader.nb_lines_read)

\* the iteration has failed on an unknown record in Strict mode after a line
\* was skipped in Lazy mode and a record was yielded
C6_Witness ==
    /\ status = "fatal"
    /\ reader.lazyness = "Strict"
    /\ reader.nb_lines_skipped >= 1
    /\ Len(reader.yielded) >= 1
    /\ reader.yielded[Len(reader.yielded)].line_no > 1

(***************************************************************************)
(* Specification SpecIds: fields whose names end in digits or not are      *)
(* pushed onto one record.                                                 *)
(***************************************************************************)
MaxIdFields == 12      \* fields pushed onto one record (SpecIds)

IdFields == {Field_from_length(n, "string", 1) : n \in {"A", "A1"}}

IdsPush == PushOf(IdFields, MaxIdFields)

IdsNext == IdsPush

SpecIds == Init /\ [][IdsNext]_vars

\* C11: the composite identifiers (name followed by multiplicity) of the
\* fields of a record are pairwise distinct.
C11_IdsDistinct ==
    \A i, j \in 1..Len(rec.flist) :
        i # j => rec.flist[i].id # rec.flist[j].id

(***************************************************************************)
(* The claims about the bounds set by push (checked under Spec).           *)
(***************************************************************************)
\* the greatest element of a non-empty set of numbers
SetMax(S) == CHOOSE x \in S : \A y \in S : y <= x

\* the greatest exclusive upper bound of the fields of a record, 0 without fields
MaxUpperBound(r) == SetMax({0} \cup {r.flist[i].upper_offset + 1 : i \in 1..Len(r.flist)})

\* C12: after any sequence of push calls, calculated_length is the maximum
\* over the fields of upper_offset + 1.
C12_CalcIsMax == rec.calculated_length = MaxUpperBound(rec)

\* the sum of the lengths of the first n fields of a record
RECURSIVE SumLengths(_, _)
SumLengths(r, n) == IF n = 0 THEN 0 ELSE SumLengths(r, n - 1) + r.flist[n].length

\* C13: on a record whose fields were all created by length, each field's
\* lower_offset is the sum of the lengths of the fields before it, its
\* upper_offset is lower_offset + length - 1, its offset_from_origin is its
\* lower_offset, and calculated_length is the sum of all the lengths.
C13_ByLengthContiguous ==
    AllByLength(rec) =>
        /\ \A i \in 1..Len(rec.flist) :
              LET f == rec.flist[i]
              IN  /\ f.lower_offset = SumLengths(rec, i - 1)
                  /\ f.upper_offset = f.lower_offset + f.length - 1
                  /\ f.offset_from_origin = f.lower_offset
        /\ rec.calculated_length = SumLengths(rec, Len(rec.flist))

\* two fields of different lengths were pushed by length
C13_Witness ==
    /\ op = "push"
    /\ AllByLength(rec)
    /\ Len(rec.flist) = 2
    /\ rec.flist[1].length = 2
    /\ rec.flist[2].length = 1
    /\ rec.flist[2].lower_offset = 2

(***************************************************************************)
(* Specification SpecOffset: fields are created by Field::from_offset.     *)
(***************************************************************************)
MaxOffArg == 7         \* greatest offset passed to Field::from_offset

\* Field::from_offset: every outcome a build can produce
Field_from_offset_results(name, ftype, lower_offset, upper_offset) ==
    IF ~Field_from_offset_ok(name, lower_offset, upper_offset)
    THEN {[ok |-> FALSE, f |-> NoField.f]}
    ELSE IF Field_from_offset_overflows(lower_offset, upper_offset)
    THEN {[ok |-> FALSE, f |-> NoField.f],
          [ok |-> TRUE, f |-> Field_from_offset(name, ftype, lower_offset, upper_offset)]}
    ELSE {[ok |-> TRUE, f |-> Field_from_offset(name, ftype, lower_offset, upper_offset)]}

\* Field::from_offset(name, description, ftype, lower_offset, upper_offset)
FromOffset ==
    /\ status = "ok"
    /\ \E name \in {"A", ""}, lower_offset \in 0..MaxOffArg, upper_offset \in 0..MaxOffArg :
          \E res \in Field_from_offset_results(name, "string", lower_offset, upper_offset) :
              /\ fld' = [ok |-> res.ok, name |-> name, lower |-> lower_offset,
                         upper |-> upper_offset, f |-> res.f]
              /\ status' = IF res.ok THEN "ok" ELSE "panic"
    /\ op' = "from_offset"
    /\ UNCHANGED <<cmd_args, writer, mode, rec, line>>
    /\ FilterIdle /\ LayoutIdle /\ MapperIdle /\ ReaderIdle

OffsetNext == FromOffset

SpecOffset == Init /\ [][OffsetNext]_vars

\* C14: every field returned by from_offset(name, a, b) has length b - a + 1,
\* lower_offset a - 1 and upper_offset b - 1, with lower_offset <= upper_offset
\* (no wrap-around), a = 0 included.
C14_OffsetBounds ==
    (op = "from_offset" /\ fld.ok) =>
        /\ fld.f.length = fld.upper - fld.lower + 1
        /\ fld.f.lower_offset = fld.lower - 1
        /\ fld.f.upper_offset = fld.upper - 1
        /\ fld.f.lower_offset <= fld.f.upper_offset

\* the record yielded for line x when the templates are as loaded
FreshlyPopulated(x) ==
    Record_set_value(mode, ReaderLayout.rec_map[RecordMapper_func(mapper, x).v], x).rec

\* a step leaves the records yielded so far and the layout as they are
YieldedKept ==
    /\ Len(reader'.yielded) >= Len(reader.yielded)
    /\ \A i \in 1..Len(reader.yielded) : reader'.yielded[i] = reader.yielded[i]
    /\ layout' = layout

MaxCmpLine == 2        \* codepoints of the input line, and length of the field

CmpFields ==
    {Field_from_length("A", t, MaxCmpLine) : t \in ComparedTypes \cup {"string"}}

CmpLines == Strings({"1", " ", "a", "-", "."}, MaxCmpLine)

CmpFilters ==
    {<<FieldFilter_new("A", o, v)>> :
        o \in {<<"=">>, <<"!", "=">>, <<"~">>, <<"!", "~">>, <<"<">>, <<">">>},
        v \in {<<"1">>, <<"a">>, <<"-", "1">>}}

CmpPush == PushOf(CmpFields, 1)

CmpSetValue == SetValueOf(CmpLines)

\* rec.is_filter_matched(&filter), the filter holding one field filter
CmpMatch ==
    /\ status = "ok"
    /\ op # "is_filter_matched"
    /\ \E expr \in CmpFilters :
          LET res == Record_is_filter_matched(rec, expr)
          IN  /\ filt' = expr
              /\ fres' = res
              /\ status' = IF res.ok THEN "ok" ELSE "panic"
    /\ op' = "is_filter_matched"
    /\ UNCHANGED line
    /\ RecordIdle /\ LayoutIdle /\ MapperIdle /\ ReaderIdle

CmpNext == CmpPush \/ CmpSetValue \/ CmpMatch

SpecCompare == FilterInit /\ [][CmpNext]_vars

\* the string is not a literal of the type: it has no digit, or a character
\* that is neither a digit, a leading sign nor (for decimal) the one point
NotOfType(ftype, s) ==
    \/ \A i \in 1..Len(s) : ~IsDigit(s[i])
    \/ \E i \in 1..Len(s) :
          \/ s[i] \in {"a", " ", "^"}
          \/ s[i] \in {"+", "-"} /\ i > 1
          \/ s[i] = "-" /\ ftype = "uint"
          \/ s[i] = "." /\ ftype # "decimal"
    \/ Cardinality({i \in 1..Len(s) : s[i] = "."}) > 1

TypedOps == {"OpEqual", "OpNotEqual", "OpLessThan", "OpGreaterThan"}

\* the field filter was evaluated on the one field of the record
Compared ==
    /\ op = "is_filter_matched"
    /\ Len(rec.flist) = 1
    /\ Len(filt) = 1

MaxLoadLen == 2        \* reclength, length and end attributes
MaxLoadFields == 1     \* fields of one record of the file

XmlFile == "layout.xml"

BaseTypeNames == {"string", "decimal", "int", "uint", "date", "time"}

\* FieldType::new panics on an empty id or on an unknown base type
FieldType_new_ok(id, type_as_string) == id # "" /\ type_as_string \in BaseTypeNames

FieldType_new(id, type_as_string) == [id |-> id, type_as_string |-> type_as_string]

\* the local variables of Layout::new before the first element
Load_start ==
    [rec_length |-> 0, rec_map |-> <<>>, last_rec_name |-> <<>>,
     ftypes |-> <<>>, mtype |-> "", domain |-> <<>>]

\* <map type=... domain=...>
Layout_map(l, mtype, domain) == [l EXCEPT !.mtype = mtype, !.domain = domain]

\* <fieldtype name=... type=...>
Layout_fieldtype(l, ft_name, ft_type) ==
    [l EXCEPT !.ftypes = MapInsert(l.ftypes, ft_name, FieldType_new(ft_name, ft_type))]

\* faulty variant: an unknown type id yields a string type
Layout_ftypes_get_Default(l, f_type) ==
    [is_some |-> TRUE,
     v |-> IF f_type \in DOMAIN l.ftypes THEN l.ftypes[f_type]
           ELSE FieldType_new(f_type, "string")]

\* ftypes.get(&f_type)
Layout_ftypes_get(l, f_type) ==
    [is_some |-> f_type \in DOMAIN l.ftypes,
     v |-> IF f_type \in DOMAIN l.ftypes THEN l.ftypes[f_type]
           ELSE FieldType_new(f_type, "string")]

LoadOk == [ok |-> TRUE, err |-> <<>>]

\* <field name=... type=... length=... start=... end=...>: the outcome of
\* the element, the locals after it and the value Layout::new returns early
Layout_new_field(l, attr) ==
    LET ft == Layout_ftypes_get(l, attr.type)
    IN  IF ~ft.is_some
        THEN [status |-> "err", layout |-> NoLayout,
              result |-> [ok |-> FALSE,
                          err |-> <<"ErrorLayoutNoFieldType", XmlFile, attr.name, attr.type>>]]
        ELSE IF attr.length = 0
        THEN IF Layout_field_ok(l)
                /\ Field_from_offset_ok(attr.name, attr.start, attr.end)
                /\ ~Field_from_offset_overflows(attr.start, attr.end)
             THEN [status |-> "ok",
                   layout |-> Layout_field(l, Field_from_offset(attr.name, ft.v,
                                                                attr.start, attr.end)),
                   result |-> LoadOk]
             ELSE [status |-> "panic", layout |-> NoLayout, result |-> LoadOk]
        ELSE IF Layout_field_ok(l) /\ Field_from_length_ok(attr.name, attr.length)
             THEN [status |-> "ok",
                   layout |-> Layout_field(l, Field_from_length(attr.name, ft.v, attr.length)),
                   result |-> LoadOk]
             ELSE [status |-> "panic", layout |-> NoLayout, result |-> LoadOk]

TypeIds == {"N", "S"}

FieldAttrs ==
    {[name |-> "A", type |-> t, length |-> x[1], start |-> x[2], end |-> x[3]] :
        t \in TypeIds, x \in {<<1, 0, 0>>, <<0, 1, MaxLoadLen>>}}

NoAttr == [name |-> "", type |-> "", length |-> 0, start |-> 0, end |-> 0]

LoadInit ==
    /\ mode = "ascii"
    /\ cmd_args = NoArgs
    /\ writer = <<>>
    /\ rec = Record_new("R", 0)
    /\ op = "start"
    /\ line = <<>>
    /\ status = "ok"
    /\ filt = <<>>
    /\ fres = NoFilterResult
    /\ layout = Load_start
    /\ valid = LoadOk
    /\ mapper = NoMapper
    /\ mres = NoResult
    /\ reader = NoReader
    /\ fld = NoAttr

LoadRest ==
    /\ UNCHANGED <<cmd_args, writer, mode, rec, line>>
    /\ FilterIdle /\ ReaderIdle
    /\ UNCHANGED mres

Loading == status = "ok" /\ op # "loaded"

\* the <meta> element, the first of a layout file
LoadMeta ==
    /\ Loading
    /\ op = "start"
    /\ \E reclength \in 0..MaxLoadLen : layout' = Layout_meta(layout, reclength)
    /\ op' = "meta"
    /\ UNCHANGED <<status, valid, mapper, fld>>
    /\ LoadRest

\* the <map> element, which follows <meta>
LoadMap ==
    /\ Loading
    /\ op \in {"start", "meta"}
    /\ layout' = Layout_map(layout, "constant", <<"a">>)
    /\ op' = "map"
    /\ UNCHANGED <<status, valid, mapper, fld>>
    /\ LoadRest

\* a <fieldtype> element
LoadFieldType ==
    /\ Loading
    /\ \E ft_name \in TypeIds, ft_type \in {"string", "int", "blob"} :
          IF FieldType_new_ok(ft_name, ft_type)
          THEN /\ layout' = Layout_fieldtype(layout, ft_name, ft_type)
               /\ status' = "ok"
          ELSE /\ layout' = NoLayout
               /\ status' = "panic"
    /\ op' = "fieldtype"
    /\ UNCHANGED <<valid, mapper, fld>>
    /\ LoadRest

\* a <record> element
LoadRecord ==
    /\ Loading
    /\ \E name \in RecordNames : layout' = Layout_record(layout, name, 0)
    /\ op' = "record"
    /\ UNCHANGED <<status, valid, mapper, fld>>
    /\ LoadRest

\* a <field> element
LoadField ==
    /\ Loading
    /\ Layout_field_ok(layout) =>
          Len(layout.rec_map[layout.last_rec_name].flist) < MaxLoadFields
    /\ \E attr \in FieldAttrs :
          LET res == Layout_new_field(layout, attr)
          IN  /\ fld' = attr
              /\ layout' = res.layout
              /\ status' = res.status
              /\ valid' = res.result
    /\ op' = "field"
    /\ UNCHANGED mapper
    /\ LoadRest

\* the end of the file: Ok(Layout { .. }) with its mapper
LoadEnd ==
    /\ Loading
    /\ IF RecordMapper_new_ok(layout.mtype, layout.domain)
       THEN /\ mapper' = RecordMapper_new(layout.mtype, layout.domain)
            /\ layout' = layout
            /\ status' = "ok"
       ELSE /\ mapper' = mapper
            /\ layout' = NoLayout
            /\ status' = "panic"
    /\ op' = "loaded"
    /\ UNCHANGED <<valid, fld>>
    /\ LoadRest

LoadNext ==
    LoadMeta \/ LoadMap \/ LoadFieldType \/ LoadRecord \/ LoadField \/ LoadEnd

SpecLoad == LoadInit /\ [][LoadNext]_vars

\* every field of every record has a type whose id is a key of the registry
TypesRegistered ==
    \A n \in DOMAIN layout.rec_map :
        \A i \in 1..Len(layout.rec_map[n].flist) :
            layout.rec_map[n].flist[i].ftype.id \in DOMAIN layout.ftypes

\* a <field> element naming a type id that is not in the registry ends the
\* load with ErrorLayoutNoFieldType(file, field name, type id), no layout
UnknownTypeIsError ==
    (op' = "field" /\ fld'.type \notin DOMAIN layout.ftypes) =>
        /\ status' = "err"
        /\ valid' = [ok |-> FALSE,
                     err |-> <<"ErrorLayoutNoFieldType", XmlFile, fld'.name, fld'.type>>]
        /\ layout' = NoLayout

\* C17: a <field> that references a type id not in the registry makes the
\* load return ErrorLayoutNoFieldType(file, field name, type id) and produce
\* no layout; in every layout being loaded or loaded, each field's type id
\* is a key of the registry.
C17_UnknownFieldType ==
    /\ [](status = "ok" => TypesRegistered)
    /\ [][UnknownTypeIsError]_vars

\* a load ended on a <field> of unregistered type S while N was registered
C17_Witness ==
    /\ op = "field"
    /\ status = "err"
    /\ valid = [ok |-> FALSE, err |-> <<"ErrorLayoutNoFieldType", XmlFile, "A", "S">>]
    /\ layout = NoLayout

\* a layout was loaded that holds a field
LoadedWithField ==
    /\ op = "loaded"
    /\ status = "ok"
    /\ \E n \in DOMAIN layout.rec_map : layout.rec_map[n].flist # <<>>

(***************************************************************************)
(* Layout::retain and Layout::remove (layout.rs 379-445) with              *)
(* Record::retain and Record::remove (record.rs 376-399).                  *)
(* Specification SpecPrune: a loaded layout is pruned by retain and remove *)
(* calls.  A Vec<&str> of names is used for membership only: the model     *)
(* passes the set of its elements.                                         *)
(***************************************************************************)
MaxPruneFields == 2    \* fields of one record of the layout being pruned

RECURSIVE Repack(_, _)
\* the fields pushed again, one after the other
Repack(r, fl) ==
    IF fl = <<>> THEN r ELSE Repack(Record_push(r, Head(fl)), Tail(fl))

\* faulty variant: the fields kept are packed again from offset 0
Record_retain_Repacked(r, fnames) ==
    Repack([r EXCEPT !.flist = <<>>, !.calculated_length = 0],
           SelectSeq(r.flist, LAMBDA f : f.name \in fnames))

\* Record::retain with the predicate |f| fnames.contains(f.name)
Record_retain(r, fnames) ==
    [r EXCEPT !.flist = SelectSeq(r.flist, LAMBDA f : f.name \in fnames)]

\* faulty variant: stops at the first field removed
Record_remove_First(r, fnames) ==
    LET hit == {i \in 1..Len(r.flist) : r.flist[i].name \in fnames}
    IN  IF hit = {} THEN r
        ELSE [r EXCEPT !.flist = [i \in 1..(Len(r.flist) - 1) |->
                                     IF i < SetMin(hit) THEN r.flist[i]
                                     ELSE r.flist[i + 1]]]

\* Record::remove with the predicate |f| fnames.contains(f.name)
Record_remove(r, fnames) ==
    [r EXCEPT !.flist = SelectSeq(r.flist, LAMBDA f : f.name \notin fnames)]

\* Layout::remove
Layout_remove(l, flist) ==
    [l EXCEPT !.rec_map = [n \in DOMAIN l.rec_map |-> Record_remove(l.rec_map[n], flist)]]

\* faulty variant: the records that are not listed stay in the layout
Layout_retain_AllRecords(l, rec_list) ==
    [l EXCEPT !.rec_map =
        [n \in DOMAIN l.rec_map |->
            IF n \in DOMAIN rec_list THEN Record_retain(l.rec_map[n], rec_list[n])
            ELSE l.rec_map[n]]]

\* Layout::retain: rec_map.retain on the keys, then Record::retain on each
\* record left
Layout_retain(l, rec_list) ==
    LET rec_names == DOMAIN rec_list
        kept == {n \in DOMAIN l.rec_map : n \in rec_names}
    IN  [l EXCEPT !.rec_map =
            [n \in kept |-> Record_retain(l.rec_map[n], rec_list[n])]]

RECURSIVE PushAll(_, _)
\* the record after one <field> element per name
PushAll(r, names) ==
    IF names = <<>> THEN r
    ELSE PushAll(Record_push(r, Field_from_length(Head(names), "string", 1)), Tail(names))

PruneFieldNames == {"A", "B"}

PruneNameSeqs == UNION {[1..n -> PruneFieldNames] : n \in 0..MaxPruneFields}

\* the layouts loaded from the files of records a and b
PruneLayouts ==
    {[rec_length |-> 0,
      rec_map |-> [n \in DOMAIN names |-> PushAll(Record_new(n, 0), names[n])],
      last_rec_name |-> <<>>] :
        names \in UNION {[S -> PruneNameSeqs] : S \in SUBSET RecordNames}}

\* the arguments of retain: record names, one of them in no layout, each
\* with a list of field names, one of them in no record
RetainArgs ==
    UNION {[S -> {{}, {"B"}, {"A", "Z"}}] : S \in SUBSET (RecordNames \cup {<<"z">>})}

RemoveArgs == SUBSET (PruneFieldNames \cup {"Z"})

PruneInit ==
    /\ mode = "ascii"
    /\ cmd_args = NoArgs
    /\ writer = <<>>
    /\ rec = Record_new("R", 0)
    /\ op = "start"
    /\ line = <<>>
    /\ status = "ok"
    /\ filt = <<>>
    /\ fres = NoFilterResult
    /\ layout \in PruneLayouts
    /\ valid = NoValid
    /\ mapper = NoMapper
    /\ mres = NoResult
    /\ reader = NoReader
    /\ fld = {}

PruneRest ==
    /\ UNCHANGED <<cmd_args, writer, mode, rec, line, status, valid>>
    /\ FilterIdle /\ MapperIdle /\ ReaderIdle

\* layout.retain(rec_list)
Retain ==
    /\ \E rec_list \in RetainArgs :
          /\ layout' = Layout_retain(layout, rec_list)
          /\ fld' = rec_list
    /\ op' = "retain"
    /\ PruneRest

\* layout.remove(flist)
Remove ==
    /\ \E flist \in RemoveArgs :
          /\ layout' = Layout_remove(layout, flist)
          /\ fld' = flist
    /\ op' = "remove"
    /\ PruneRest

PruneNext == Retain \/ Remove

SpecPrune == PruneInit /\ [][PruneNext]_vars

RECURSIVE NamedIn(_, _)
\* the fields of flist whose name is in names, in the order of flist
NamedIn(flist, names) ==
    IF flist = <<>> THEN <<>>
    ELSE IF Head(flist).name \in names
         THEN <<Head(flist)>> \o NamedIn(Tail(flist), names)
         ELSE NamedIn(Tail(flist), names)

FieldNamesOf(flist) == {flist[i].name : i \in 1..Len(flist)}

\* C18: after retain(map) the layout holds exactly the records whose names
\* are keys of map and were in the layout, and each of them holds exactly
\* those of its former fields whose names map lists for it, in their
\* original order; names of map that do not exist are ignored.
C18_Retain ==
    [][op' = "retain" =>
          /\ DOMAIN layout'.rec_map = DOMAIN layout.rec_map \cap DOMAIN fld'
          /\ \A n \in DOMAIN layout'.rec_map :
                layout'.rec_map[n].flist = NamedIn(layout.rec_map[n].flist, fld'[n])]_vars

\* retain dropped record b, and field B of record a, names z and Z being
\* unknown to the layout
C18_Witness ==
    /\ op = "retain"
    /\ DOMAIN fld = {<<"a">>, <<"z">>}
    /\ fld[<<"a">>] = {"A", "Z"}
    /\ DOMAIN layout.rec_map = {<<"a">>}
    /\ Len(layout.rec_map[<<"a">>].flist) = 1
    /\ layout.rec_map[<<"a">>].flist[1].upper_offset = 1

\* C19: after remove(names) no record holds a field named in names, every
\* other field is still there in its original order, and the set of records
\* is unchanged; names that match nothing are ignored.
C19_Remove ==
    [][op' = "remove" =>
          /\ DOMAIN layout'.rec_map = DOMAIN layout.rec_map
          /\ \A n \in DOMAIN layout'.rec_map :
                /\ FieldNamesOf(layout'.rec_map[n].flist) \cap fld' = {}
                /\ layout'.rec_map[n].flist
                      = NamedIn(layout.rec_map[n].flist,
                                FieldNamesOf(layout.rec_map[n].flist) \ fld')]_vars

\* remove took both fields A out of record a and left record b as it was
C19_Witness ==
    /\ op = "remove"
    /\ fld = {"A", "Z"}
    /\ DOMAIN layout.rec_map = RecordNames
    /\ layout.rec_map[<<"a">>].flist = <<>>
    /\ layout.rec_map[<<"a">>].calculated_length = 2
    /\ Len(layout.rec_map[<<"b">>].flist) = 2

(***************************************************************************)
(* Parsing of filter expressions: From<&str> for FieldFilter               *)
(* (fieldfilter.rs 118-131) and for RecordFilter (recordfilter.rs 59-70).  *)
(* Specification SpecParse: one expression is converted.  The regex crate  *)
(* searches for the leftmost match, with greedy repetitions and the        *)
(* alternatives of a group tried in order.                                 *)
(***************************************************************************)
MaxExprLen == 6        \* codepoints of a field filter expression
MaxParts == 2          \* parts of a record filter expression

\* \w of the regex crate, on the characters of the model
IsWord(c) == c \in {"A", "B", "Z", "a", "U", "_"} \/ IsDigit(c)

RECURSIVE Concat(_)
\* the String of a sequence of codepoints
Concat(s) == IF s = <<>> THEN "" ELSE Head(s) \o Concat(Tail(s))

\* the alternatives of the group <op>, in the order of the pattern
OpLiterals == <<<<"=">>, <<"!", "=">>, <<"~">>, <<"!", "~">>, <<"<">>, <<">">>>>

\* the end of the longest run of characters satisfying a class, from i - 1 on
RECURSIVE RunEnd(_, _, _)
RunEnd(s, i, white) ==
    IF i <= Len(s) /\ (IF white THEN IsWhite(s[i]) ELSE IsWord(s[i]))
    THEN RunEnd(s, i + 1, white) ELSE i - 1

\* the alternatives of <op> that match at position k
OpsAt(s, k) ==
    {n \in 1..Len(OpLiterals) :
        /\ k + Len(OpLiterals[n]) - 1 <= Len(s)
        /\ SubSeq(s, k, k + Len(OpLiterals[n]) - 1) = OpLiterals[n]}

\* the match of (?P<field>\w+)\s+(?P<op>..)\s+(?P<re>.+)$ that starts at i:
\* \w+ and \s+ take their whole runs, since the next token cannot start with
\* a character of the run; the last \s+ leaves one character to .+
MatchAt(s, i) ==
    LET j == RunEnd(s, i, FALSE)          \* field is s[i..j]
        k == RunEnd(s, j + 1, TRUE)       \* first \s+ is s[j+1..k]
        ops == OpsAt(s, k + 1)
        n == SetMin(ops)
        p == k + 1 + Len(OpLiterals[n])   \* first position after op
        q == Min(RunEnd(s, p, TRUE), Len(s) - 1)
    IN  IF j >= i /\ k > j /\ ops # {} /\ q >= p
        THEN [is_some |-> TRUE, field |-> SubSeq(s, i, j), op |-> OpLiterals[n],
              re |-> SubSeq(s, q + 1, Len(s))]
        ELSE [is_some |-> FALSE, field |-> <<>>, op |-> <<>>, re |-> <<>>]

\* expr_reg.captures(expr): the leftmost match
ExprCaptures(expr) ==
    LET starts == {i \in 1..Len(expr) : MatchAt(expr, i).is_some}
    IN  IF starts = {} THEN MatchAt(<<" ">>, 1) ELSE MatchAt(expr, SetMin(starts))

\* Regex::new(..).unwrap() on the patterns of the model: an opening
\* parenthesis is never closed, which is a syntax error
Regex_new_ok(pattern) == \A i \in 1..Len(pattern) : pattern[i] # "("

\* FieldFilter::new panics on an unknown operator or an invalid pattern
FieldFilter_new_ok(op_str, fvalue) ==
    /\ FieldFilterOp_from(Trim(op_str)) # "panic"
    /\ Regex_new_ok(Trim(fvalue))

\* FieldFilter::from(expr)
FieldFilter_from(expr) ==
    LET caps == ExprCaptures(expr)
    IN  IF caps.is_some /\ FieldFilter_new_ok(caps.op, caps.re)
        THEN [ok |-> TRUE, v |-> FieldFilter_new(Concat(caps.field), caps.op, caps.re)]
        ELSE [ok |-> FALSE, v |-> FieldFilter_new("", <<"=">>, <<>>)]

RECURSIVE Split(_, _)
\* str::split(delim): the parts between the delimiters, empty ones included
Split(s, delim) ==
    LET at == {i \in 1..Len(s) : s[i] = delim}
    IN  IF at = {} THEN <<s>>
        ELSE <<SubSeq(s, 1, SetMin(at) - 1)>>
                \o Split(SubSeq(s, SetMin(at) + 1, Len(s)), delim)

\* RecordFilter::from(op): the expr vector, or a panic of one of the parts
RecordFilter_from(s) ==
    LET parts == Split(s, ";")
    IN  [ok |-> \A i \in 1..Len(parts) : FieldFilter_from(parts[i]).ok,
         expr |-> [i \in 1..Len(parts) |-> FieldFilter_from(parts[i]).v]]

FieldExprs ==
    Strings({"A", " ", "=", "("}, MaxExprLen)
    \cup {<<"B", " ">> \o o \o <<" ", "^", "1">> :
            o \in {OpLiterals[n] : n \in 1..Len(OpLiterals)}
                  \cup {<<"#">>, <<"=", "=">>, <<"<", ">">>}}

PartExprs ==
    {<<"A", " ", "=", " ", "1">>, <<" ", "B", " ", "!", "~", " ", " ", "2", " ">>,
     <<"A", "=", "1">>, <<>>, <<"(", "A", " ", "<", " ", "1">>,
     <<"A", " ", ">", " ", "(">>}

RECURSIVE Join(_, _)
Join(parts, delim) ==
    IF Len(parts) = 1 THEN parts[1]
    ELSE parts[1] \o <<delim>> \o Join(Tail(parts), delim)

RecordExprs ==
    {Join(parts, ";") : parts \in UNION {[1..n -> PartExprs] : n \in 1..MaxParts}}

ParseInit ==
    /\ mode = "ascii"
    /\ cmd_args = NoArgs
    /\ writer = <<>>
    /\ rec = Record_new("R", 0)
    /\ op = "start"
    /\ line = <<>>
    /\ status = "ok"
    /\ filt = <<>>
    /\ fres = NoFilterResult
    /\ layout = NoLayout
    /\ valid = NoValid
    /\ mapper = NoMapper
    /\ mres = NoResult
    /\ reader = NoReader
    /\ fld = NoField

ParseRest ==
    /\ UNCHANGED fres
    /\ RecordIdle /\ LayoutIdle /\ MapperIdle /\ ReaderIdle

\* FieldFilter::from(expr); line holds the expression, filt the filter
FieldFilterFrom ==
    /\ op = "start"
    /\ \E expr \in FieldExprs :
          LET res == FieldFilter_from(expr)
          IN  /\ line' = expr
              /\ filt' = IF res.ok THEN <<res.v>> ELSE <<>>
              /\ status' = IF res.ok THEN "ok" ELSE "panic"
    /\ op' = "FieldFilter_from"
    /\ ParseRest

\* RecordFilter::from(op)
RecordFilterFrom ==
    /\ op = "start"
    /\ \E expr \in RecordExprs :
          LET res == RecordFilter_from(expr)
          IN  /\ line' = expr
              /\ filt' = IF res.ok THEN res.expr ELSE <<>>
              /\ status' = IF res.ok THEN "ok" ELSE "panic"
    /\ op' = "RecordFilter_from"
    /\ ParseRest

ParseNext == FieldFilterFrom \/ RecordFilterFrom

SpecParse == ParseInit /\ [][ParseNext]_vars

AllWhite(s) == \A i \in 1..Len(s) : IsWhite(s[i])

AllWord(s) == \A i \in 1..Len(s) : IsWord(s[i])

OpVariant(o) ==
    CASE o = <<"=">> -> "OpEqual"
      [] o = <<"!", "=">> -> "OpNotEqual"
      [] o = <<"~">> -> "OpSimilar"
      [] o = <<"!", "~">> -> "OpNotSimilar"
      [] o = <<"<">> -> "OpLessThan"
      [] o = <<">">> -> "OpGreaterThan"

\* the readings of e as NAME WS OP WS RHS, whitespace before NAME allowed:
\* NAME is e[a..b], OP is e[c..d], RHS is e[g..Len(e)]
Readings(e) ==
    {x \in [a : 1..Len(e), b : 1..Len(e), c : 1..Len(e), d : 1..Len(e), g : 1..Len(e)] :
        /\ x.a <= x.b /\ x.b + 1 < x.c /\ x.c <= x.d /\ x.d + 1 < x.g
        /\ AllWhite(SubSeq(e, 1, x.a - 1))
        /\ AllWord(SubSeq(e, x.a, x.b))
        /\ AllWhite(SubSeq(e, x.b + 1, x.c - 1))
        /\ SubSeq(e, x.c, x.d) \in {<<"=">>, <<"!", "=">>, <<"~">>, <<"!", "~">>,
                                    <<"<">>, <<">">>}
        /\ AllWhite(SubSeq(e, x.d + 1, x.g - 1))}

\* the filter is the one that a reading of e gives
ParsedAs(ff, e) ==
    \E x \in Readings(e) :
        /\ ff.fname = Concat(SubSeq(e, x.a, x.b))
        /\ ff.op = OpVariant(SubSeq(e, x.c, x.d))
        /\ ff.freg_or_value = Trim(SubSeq(e, x.g, Len(e)))

\* C20: FieldFilter::from accepts exactly the expressions NAME WS OP WS RHS
\* with OP one of =, !=, ~, !~, <, >, and yields the name, the operator
\* variant and the trimmed RHS; every other expression is fatal;
\* RecordFilter::from splits on ';' and parses every part so, in order.
C20_FilterGrammar ==
    /\ op = "FieldFilter_from" =>
          /\ status = "ok" <=> Readings(line) # {}
          /\ status = "ok" => (Len(filt) = 1 /\ ParsedAs(filt[1], line))
    /\ op = "RecordFilter_from" =>
          LET parts == Split(line, ";")
          IN  /\ status = "ok" <=> \A i \in 1..Len(parts) : Readings(parts[i]) # {}
              /\ status = "ok" =>
                    /\ Len(filt) = Len(parts)
                    /\ \A i \in 1..Len(parts) : ParsedAs(filt[i], parts[i])

\* an expression accepted although characters precede its NAME
AcceptedWithPrefix ==
    /\ op = "FieldFilter_from"
    /\ status = "ok"
    /\ Readings(line) = {}

\* an expression of the grammar that is fatal
GrammaticalButFatal ==
    /\ op = "FieldFilter_from"
    /\ status = "panic"
    /\ Readings(line) # {}

(***************************************************************************)
(* The tuple Layout::is_valid returns on failure (layout.rs 463-478).      *)
(***************************************************************************)
\* the length a record of the layout is expected to have
ExpectedLength(l, n) ==
    IF l.rec_length # 0 THEN l.rec_length ELSE l.rec_map[n].declared_length

\* C21: whenever is_valid returns ok = false, with a uniform length or with
\* per-record lengths, bad_record_name is the name of a record of the layout
\* whose calculated_length differs from the expected length, expected is
\* that length and actual is the record's calculated_length.
C21_IsValidReport ==
    (op = "is_valid" /\ ~valid.ok) =>
        \E n \in DOMAIN layout.rec_map :
            /\ valid.name = layout.rec_map[n].name
            /\ valid.expected = ExpectedLength(layout, n)
            /\ valid.actual = layout.rec_map[n].calculated_length
            /\ valid.expected # valid.actual

\* is_valid failed on a layout with a uniform length
UniformFailure ==
    /\ op = "is_valid"
    /\ ~valid.ok
    /\ layout.rec_length # 0

(***************************************************************************)
(* Specification SpecNew: the constructors Field::from_length,             *)
(* Field::from_offset, Record::new and FieldType::new are called with any  *)
(* arguments; fld holds the arguments and the outcome of the last call.    *)
(***************************************************************************)
MaxNewLen == 3         \* greatest length passed to a constructor

\* Record::new panics on an empty name
Record_new_ok(name) == name # ""

NewNames == {"", "A", "B"}

\* Field::from_length(name, description, ftype, length)
FromLength ==
    /\ status = "ok"
    /\ \E name \in NewNames, length \in 0..MaxNewLen :
          IF Field_from_length_ok(name, length)
          THEN /\ fld' = [ok |-> TRUE, name |-> name, length |-> length,
                          f |-> Field_from_length(name, "string", length)]
               /\ status' = "ok"
          ELSE /\ fld' = [ok |-> FALSE, name |-> name, length |-> length, f |-> NoField.f]
               /\ status' = "panic"
    /\ op' = "from_length"
    /\ UNCHANGED <<cmd_args, writer, mode, rec, line>>
    /\ FilterIdle /\ LayoutIdle /\ MapperIdle /\ ReaderIdle

\* Record::new(name, description, length)
NewRecord ==
    /\ status = "ok"
    /\ \E name \in NewNames, length \in 0..MaxNewLen :
          IF Record_new_ok(name)
          THEN /\ rec' = Record_new(name, length)
               /\ fld' = [ok |-> TRUE, name |-> name, length |-> length]
               /\ status' = "ok"
          ELSE /\ rec' = rec
               /\ fld' = [ok |-> FALSE, name |-> name, length |-> length]
               /\ status' = "panic"
    /\ op' = "Record_new"
    /\ UNCHANGED <<cmd_args, writer, mode, line>>
    /\ FilterIdle /\ LayoutIdle /\ MapperIdle /\ ReaderIdle

\* FieldType::new(id, type_as_string)
NewFieldType ==
    /\ status = "ok"
    /\ \E id \in {"", "S", "N"}, type_as_string \in BaseTypeNames \cup {"complex", ""} :
          IF FieldType_new_ok(id, type_as_string)
          THEN /\ fld' = [ok |-> TRUE, id |-> id, type_as_string |-> type_as_string,
                          ft |-> FieldType_new(id, type_as_string)]
               /\ status' = "ok"
          ELSE /\ fld' = [ok |-> FALSE, id |-> id, type_as_string |-> type_as_string,
                          ft |-> FieldType_new("", "")]
               /\ status' = "panic"
    /\ op' = "FieldType_new"
    /\ UNCHANGED <<cmd_args, writer, mode, rec, line>>
    /\ FilterIdle /\ LayoutIdle /\ MapperIdle /\ ReaderIdle

NewNext == FromLength \/ FromOffset \/ NewRecord \/ NewFieldType

SpecNew == Init /\ [][NewNext]_vars

\* the last constructor call failed and returned no object
FailedFast == ~fld.ok /\ status = "panic"

\* C22: Field::from_length fails on an empty name or a length of 0,
\* Field::from_offset on an empty name or lower > upper, Record::new on an
\* empty name, FieldType::new on an empty id or an unknown base type name;
\* a failed construction produces no object.
C22_ConstructorsFailFast ==
    /\ (op = "from_length" /\ (fld.name = "" \/ fld.length = 0)) => FailedFast
    /\ (op = "from_offset" /\ (fld.name = "" \/ fld.lower > fld.upper)) => FailedFast
    /\ (op = "Record_new" /\ fld.name = "") => FailedFast
    /\ (op = "FieldType_new"
          /\ (fld.id = "" \/ fld.type_as_string
                                \notin {"string", "decimal", "int", "uint", "date", "time"}))
          => FailedFast
    /\ op = "from_length" /\ ~fld.ok => fld.f = NoField.f
    /\ op = "from_offset" /\ ~fld.ok => fld.f = NoField.f

\* from_length was called with a name and the length 0, and failed
C22_Witness ==
    /\ op = "from_length"
    /\ fld.name = "A"
    /\ fld.length = 0
    /\ FailedFast

(***************************************************************************)
(* The urr front-end (bin/urr/args.rs, bin/urr/urr.rs).  cmd_args holds    *)
(* the options as from_args returns them, the lists of --fl and --skip in  *)
(* the form into_rec_map and into_field_list give them.  The reader is the *)
(* one modelled above.                                                     *)
(* Specification SpecUrr: main sets the run up, then loops over the        *)
(* records the reader yields.                                              *)
(***************************************************************************)
MaxUrrFile == 3        \* lines of the input file of a run
MaxSample == 3         \* greatest argument of option -s

\* from_args, "check lazyness": the second assignment replaces the first
Args_reader_mode(strict, lazy) ==
    LET reader_mode == IF strict THEN "Strict" ELSE "Lazy"
    IN  IF lazy THEN "Lazy" ELSE "Strict"

\* CommandLineArguments::from_args
Args_from_args(strict, lazy, only_read, sample_size, record_filter_list, filter_list, skip_fields) ==
    [strict |-> strict, lazy |-> lazy,
     reader_mode |-> Args_reader_mode(strict, lazy),
     only_read |-> only_read,
     sample_size |-> sample_size,
     record_filter_list |-> record_filter_list,
     filter_list |-> filter_list,
     skip_fields |-> skip_fields]

None(v) == [is_some |-> FALSE, v |-> v]

Some(v) == [is_some |-> TRUE, v |-> v]

\* Layout::contains_field
Layout_contains_field(l, fname) ==
    \E n \in DOMAIN l.rec_map : Record_contains_field(l.rec_map[n], fname)

\* main, "check if field names are valid"
Urr_filter_checked(l, expr) ==
    \A i \in 1..Len(expr) : Layout_contains_field(l, expr[i].fname)

\* main, "prune layout if any" and "always skip some fields"
Urr_prune(l, args) ==
    LET retained == IF args.filter_list.is_some
                    THEN Layout_retain(l, args.filter_list.v) ELSE l
    IN  IF args.skip_fields.is_some
        THEN Layout_remove(retained, args.skip_fields.v) ELSE retained

\* main, "samples?"
Urr_sample_reached(args, stats) ==
    args.sample_size.is_some /\ args.sample_size.v <= stats.nb_lines_read

UrrFiles ==
    UNION {[1..k -> {<<"a", "a">>, <<"a", "b">>, <<"z", "z">>}] : k \in 0..MaxUrrFile}

UrrFilterLists ==
    {<<"A", " ", "=", " ", "a">>, <<"B", " ", "=", " ", "b">>,
     <<"A", " ", "=", " ", "a", ";", "B", " ", "=", " ", "z">>}

UrrArgs ==
    {Args_from_args(strict, lazy, only_read, sample_size, record_filter_list,
                    filter_list, skip_fields) :
        strict \in BOOLEAN, lazy \in BOOLEAN, only_read \in BOOLEAN,
        sample_size \in {None(0)} \cup {Some(n) : n \in 0..MaxSample},
        record_filter_list \in {None(<<>>)} \cup {Some(s) : s \in UrrFilterLists},
        filter_list \in {None(<<>>), Some([n \in {<<"a">>} |-> {"A"}])},
        skip_fields \in {None({}), Some({"B"})}}

UrrInit ==
    /\ mode = "ascii"
    /\ cmd_args \in UrrArgs
    /\ writer = <<>>
    /\ rec = Record_new(<<>>, 0)
    /\ op = "start"
    /\ line = <<>>
    /\ status = "ok"
    /\ filt = <<>>
    /\ fres = NoFilterResult
    /\ layout = ReaderLayout
    /\ valid = NoValid
    /\ mapper = RecordMapper_new("range", <<"0", ".", ".", "1">>)
    /\ mres = NoResult
    /\ reader = NoReader
    /\ fld = NoField

UrrRest == UNCHANGED <<mode, valid, mapper, mres, fld>>

\* main up to the loop: the record filter is parsed and checked against the
\* layout, the layout is pruned, the reader is created and its mode set
UrrSetup ==
    /\ op = "start"
    /\ status = "ok"
    /\ \E parsed \in {IF cmd_args.record_filter_list.is_some
                       THEN RecordFilter_from(cmd_args.record_filter_list.v)
                       ELSE [ok |-> TRUE, expr |-> <<>>]} :
       \E args \in {IF cmd_args.filter_list.is_some
                     THEN [cmd_args EXCEPT !.reader_mode = "Lazy"] ELSE cmd_args} :
           IF parsed.ok /\ Urr_filter_checked(layout, parsed.expr)
           THEN \E file \in UrrFiles :
                   /\ filt' = parsed.expr
                   /\ layout' = Urr_prune(layout, cmd_args)
                   /\ cmd_args' = args
                   /\ reader' = Reader_set_lazyness(Reader_new(file, "Strict"),
                                                    args.reader_mode)
                   /\ status' = "ok"
           ELSE /\ status' = "panic"
                /\ UNCHANGED <<filt, layout, cmd_args, reader>>
    /\ op' = "loop"
    /\ UNCHANGED <<rec, line, fres, writer>>
    /\ UrrRest

\* how a turn of the loop ends, res being what reader.next() returned and m
\* the outcome of is_filter_matched on the record: "stay" when the reader
\* itself ended the run
UrrTurn(res, m) ==
    IF res.status = "eof" THEN "close"
    ELSE IF res.status # "ok" THEN "stay"
    ELSE IF cmd_args.only_read THEN "continue"
    ELSE IF Urr_sample_reached(cmd_args, res.reader) THEN "break"
    ELSE IF ~cmd_args.record_filter_list.is_some THEN "written"
    ELSE IF ~m.ok THEN "panic"
    ELSE IF m.v THEN "written" ELSE "filtered"

\* one turn of the loop "while let Some((stats, rec)) = reader.next()"; op
\* tells how the turn ended: "continue" (only_read), "break" (sample size
\* reached), "filtered", "written", or "close" when next() returned None
UrrLoop ==
    /\ op \in {"loop", "continue", "filtered", "written"}
    /\ status = "ok"
    /\ \E res \in {Reader_next(layout, mapper, mode, reader)} :
       \E m \in {Record_is_filter_matched(res.rec, filt)} :
       \E turn \in {UrrTurn(res, m)} :
           /\ reader' = res.reader
           /\ layout' = res.layout
           /\ rec' = res.rec
           /\ line' = IF res.reader.nb_lines_read = 0 THEN <<>>
                      ELSE reader.file[res.reader.nb_lines_read]
           /\ fres' = IF turn \in {"written", "filtered", "panic"}
                         /\ cmd_args.record_filter_list.is_some
                      THEN m ELSE fres
           /\ writer' = IF turn = "written" THEN Append(writer, res.rec) ELSE writer
           /\ status' = IF turn = "panic" THEN "panic"
                        ELSE IF res.status \in {"ok", "eof"} THEN "ok" ELSE res.status
           /\ op' = IF turn \in {"panic", "stay"} THEN op ELSE turn
    /\ UNCHANGED <<filt, cmd_args>>
    /\ UrrRest

UrrNext == UrrSetup \/ UrrLoop

SpecUrr == UrrInit /\ [][UrrNext]_vars

\* the records the reader has yielded, in order
YieldedRecs == [i \in 1..Len(reader.yielded) |-> reader.yielded[i].rec]

\* the loop has ended, and every record yielded was to be converted
Converted ==
    /\ op \in {"break", "close"}
    /\ status = "ok"
    /\ ~cmd_args.only_read
    /\ ~cmd_args.record_filter_list.is_some

\* C23: with -s n the front-end hands to the writer exactly the first n
\* records the reader yields, or all of them when fewer than n are yielded,
\* and then stops reading.
C23_SampleSize ==
    (Converted /\ cmd_args.sample_size.is_some) =>
        /\ Len(writer) <= Len(YieldedRecs)
        /\ writer = SubSeq(YieldedRecs, 1, Len(writer))
        /\ op = "break" => Len(writer) = cmd_args.sample_size.v
        /\ op = "close" => (writer = YieldedRecs /\ Len(writer) <= cmd_args.sample_size.v)

\* the run stopped on option -s
SampleStop ==
    /\ Converted
    /\ op = "break"
    /\ cmd_args.sample_size.v > 0

\* C24: the reader runs in Strict mode whenever --strict is given, and in
\* Lazy mode when it is not.
C24_StrictOption ==
    (op # "start" /\ status # "panic" /\ reader # NoReader) =>
        reader.lazyness = IF cmd_args.strict THEN "Strict" ELSE "Lazy"

\* the field filter names no field of the record
Pruned(r, filter) == ~Record_contains_field(r, filter.fname)

\* C25: a record filter whose field names were all found in the layout at
\* the check can, once the layout is pruned, name a field that is in no
\* record; is_filter_matched then takes that conjunct as satisfied for every
\* record, whatever its right-hand side: the record is written when its
\* other conjuncts hold.
C25_PrunedFilterField ==
    (op \in {"written", "filtered"} /\ status = "ok"
        /\ cmd_args.record_filter_list.is_some) =>
        /\ Urr_filter_checked(ReaderLayout, filt)
        /\ fres.ok
        /\ op = "written" <=>
              \A i \in 1..Len(filt) :
                  \/ Pruned(rec, filt[i])
                  \/ \E j \in 1..Len(rec.flist) :
                        /\ rec.flist[j].name = filt[i].fname
                        /\ rec.flist[j].str_value = filt[i].freg_or_value
        /\ (\A i \in 1..Len(filt) : Pruned(rec, filt[i])) => op = "written"

\* a record whose line ends in a was written under the filter B = b, the
\* field B having been removed from the layout after the check
C25_Witness ==
    /\ op = "written"
    /\ status = "ok"
    /\ cmd_args.record_filter_list = Some(<<"B", " ", "=", " ", "b">>)
    /\ cmd_args.skip_fields.is_some
    /\ Len(filt) = 1
    /\ filt[1].fname = "B"
    /\ Layout_contains_field(ReaderLayout, "B")
    /\ ~Layout_contains_field(layout, "B")
    /\ line = <<"a", "a">>
    /\ writer # <<>>
    /\ writer[Len(writer)] = rec

(***************************************************************************)
(* Slicing in range (checked under Spec).                                  *)
(***************************************************************************)
\* every character of the line is one byte long
SingleByteLine(value) == \A i \in 1..Len(value) : ByteLen(<<value[i]>>) = 1

\* C26: for a Record<AsciiMode> built by any pushes, by length or by offset,
\* and any line of single-byte characters, the empty line included, set_value
\* never slices out of range: every field's upper_offset is below the length
\* of the adjusted line.
C26_SliceInRange ==
    (op = "set_value" /\ mode = "ascii" /\ SingleByteLine(line)) =>
        /\ status = "ok"
        /\ \A i \in 1..Len(rec.flist) :
              rec.flist[i].upper_offset < ByteLen(Record_adjust_value(rec, line))


(***************************************************************************)
(* Pruning, slicing and indexes together.                                  *)
(* Specification SpecSlice: the record a of a layout is built by push and  *)
(* pruned by Layout::remove and Layout::retain, in any order; rec is a     *)
(* clone of it populated by set_value, once or twice.  The record of the   *)
(* layout is never populated.                                              *)
(***************************************************************************)
MaxSliceFields == 2    \* fields of the record at any time
MaxSliceLen == 2       \* length of a field created by length
MaxSliceOff == 2       \* greatest 1-based offset of a field created by offset
MaxSliceLine == 2      \* codepoints of an input line
MaxSliceCalc == 4      \* greatest calculated_length a push may reach

SliceFields ==
    {Field_from_length(n, "string", l) : n \in FieldNames, l \in 1..MaxSliceLen}
    \cup
    {Field_from_offset(n, "string", ab[1], ab[2]) :
        n \in FieldNames,
        ab \in {x \in (1..MaxSliceOff) \X (1..MaxSliceOff) : x[1] <= x[2]}}

SliceLines == Strings(Alphabet, MaxSliceLine)

SliceNames == {{"A"}, {"B"}}

\* the record of the layout
Template == layout.rec_map[<<"a">>]

SliceInit ==
    /\ mode \in {"ascii", "utf8"}
    /\ cmd_args = NoArgs
    /\ writer = <<>>
    /\ rec = Record_new(<<"a">>, 0)
    /\ op = "new"
    /\ line = <<>>
    /\ status = "ok"
    /\ filt = <<>>
    /\ fres = NoFilterResult
    /\ layout = [rec_length |-> 0,
                 rec_map |-> [n \in {<<"a">>} |-> Record_new(<<"a">>, 0)],
                 last_rec_name |-> <<>>]
    /\ valid = NoValid
    /\ mapper = NoMapper
    /\ mres = NoResult
    /\ reader = NoReader
    /\ fld = NoField

SliceRest ==
    /\ UNCHANGED <<cmd_args, writer, mode, valid, fld>>
    /\ FilterIdle /\ MapperIdle /\ ReaderIdle

Building == op \in {"new", "push", "remove", "retain"}

\* layout.get_mut("a").push(field)
SlicePush ==
    /\ Building
    /\ Len(Template.flist) < MaxSliceFields
    /\ \E field \in SliceFields :
          /\ Record_push(Template, field).calculated_length <= MaxSliceCalc
          /\ layout' = [layout EXCEPT !.rec_map[<<"a">>] = Record_push(Template, field)]
    /\ op' = "push"
    /\ UNCHANGED <<rec, line, status>>
    /\ SliceRest

\* layout.remove(flist)
SliceRemove ==
    /\ Building
    /\ \E flist \in SliceNames : layout' = Layout_remove(layout, flist)
    /\ op' = "remove"
    /\ UNCHANGED <<rec, line, status>>
    /\ SliceRest

\* layout.retain(rec_list), rec_list naming record a
SliceRetain ==
    /\ Building
    /\ \E flist \in SliceNames :
          layout' = Layout_retain(layout, [n \in {<<"a">>} |-> flist])
    /\ op' = "retain"
    /\ UNCHANGED <<rec, line, status>>
    /\ SliceRest

\* the first set_value is called on a clone of the record of the layout, the
\* second on the record the first populated
SliceSetValue ==
    /\ status = "ok"
    /\ op # "set_value_again"
    /\ \E value \in SliceLines :
          LET res == Record_set_value(mode, IF op = "set_value" THEN rec ELSE Template,
                                      value)
          IN  /\ rec' = res.rec
              /\ status' = IF res.ok THEN "ok" ELSE "panic"
              /\ line' = value
    /\ op' = IF op = "set_value" THEN "set_value_again" ELSE "set_value"
    /\ UNCHANGED layout
    /\ SliceRest

SliceNext == SlicePush \/ SliceRemove \/ SliceRetain \/ SliceSetValue

SpecSlice == SliceInit /\ [][SliceNext]_vars

\* field f with the values it was given taken away
Slicing(f) == [f EXCEPT !.raw_value = <<>>, !.str_value = <<>>]

\* every field of the pruned record is a field of the unpruned one, values included
Survivors(pruned, unpruned) ==
    \A j \in 1..Len(pruned.flist) :
        \E i \in 1..Len(unpruned.flist) : pruned.flist[j] = unpruned.flist[i]

\* C27: remove and retain leave the calculated_length of the record and the
\* lower_offset, upper_offset, length, multiplicity and id of every field
\* that survives unchanged, so that for any line set_value gives each
\* surviving field the raw and trimmed value it gets on the unpruned record.
C27_PruneKeepsSlicing ==
    [][op' \in {"remove", "retain"} =>
          /\ layout'.rec_map[<<"a">>].calculated_length = Template.calculated_length
          /\ Survivors(layout'.rec_map[<<"a">>], Template)
          /\ \A value \in SliceLines :
                LET unpruned == Record_set_value(mode, Template, value)
                    pruned == Record_set_value(mode, layout'.rec_map[<<"a">>], value)
                IN  unpruned.ok => (pruned.ok /\ Survivors(pruned.rec, unpruned.rec))]_vars

\* the second of two by-length fields, alone in the record after the first
\* was removed, is given the second character of the line
C27_Witness ==
    /\ op = "set_value"
    /\ status = "ok"
    /\ Len(Template.flist) = 1
    /\ Template.calculated_length = 2
    /\ Template.flist[1].creation_type = "ByLength"
    /\ Template.flist[1].lower_offset = 1
    /\ line = <<" ", "a">>
    /\ Len(rec.flist) = 1
    /\ rec.flist[1].raw_value = <<"a">>

\* C28: set_value leaves no residue of an earlier line and changes values
\* only: after set_value(L1) and set_value(L2) the record is what
\* set_value(L2) alone makes of it, every str_value is the trim of its
\* raw_value, and name, length, offsets, index, multiplicity, id and
\* calculated_length are as before set_value.
C28_NoResidue ==
    (op \in {"set_value", "set_value_again"} /\ status = "ok") =>
        /\ rec = Record_set_value(mode, Template, line).rec
        /\ \A i \in 1..Len(rec.flist) :
              /\ rec.flist[i].str_value = Trim(rec.flist[i].raw_value)
              /\ Slicing(rec.flist[i]) = Slicing(Template.flist[i])
        /\ [rec EXCEPT !.flist = <<>>] = [Template EXCEPT !.flist = <<>>]

\* a record populated twice, the second time with a line of one blank: both
\* fields hold a blank, the second from the padding, and the empty string as
\* their value
C28_Witness ==
    /\ op = "set_value_again"
    /\ status = "ok"
    /\ Len(rec.flist) = 2
    /\ line = <<" ">>
    /\ rec.flist[1].raw_value = <<" ">>
    /\ rec.flist[1].str_value = <<>>
    /\ rec.flist[2].raw_value = <<" ">>

\* C29: the two slicing modes agree on single-byte input: after the same
\* pushes, set_value of a line of one-byte characters gives every field the
\* same raw_value and str_value in a Record<AsciiMode> and a
\* Record<UTF8Mode>.
C29_ModesAgree ==
    (op = "set_value" /\ SingleByteLine(line)) =>
        LET ascii == Record_set_value_ascii(Template, line)
            utf8 == Record_set_value_utf8(Template, line)
        IN  /\ ascii.ok
            /\ utf8.ok
            /\ ascii.rec.flist = utf8.rec.flist

\* C30: after any sequence of push, remove and retain, the index of each
\* field is its position in the field list of its record.
C30_IndexIsPosition ==
    \A i \in 1..Len(Template.flist) : Template.flist[i].index = i - 1

====
